---- MODULE Spec2Model ----
(***************************************************************************)
(* Model of the agent decision system of UofTHacks-Project:                *)
(*   src/api/app/agent_engine.py    decision engine (pure functions)       *)
(*   src/api/app/agent_worker.py    execute_action, process_agent_tick     *)
(*   src/api/app/agent_database.py  store calls, lock, lazy initialization *)
(*   src/api/app/main.py            HTTP endpoints that touch agent rows   *)
(*                                                                         *)
(* Numbers.  Needs, moods, sentiments, traits and utilities are Python     *)
(* floats; the model keeps them in thousandths (0.85 is 850).  A product   *)
(* or quotient that is not a whole number of thousandths is truncated      *)
(* toward zero.  Times are whole seconds.                                  *)
(***************************************************************************)
EXTENDS Integers, Sequences, FiniteSets, TLC

(***************************************************************************)
(* Arithmetic helpers                                                      *)
(***************************************************************************)
Max(a, b) == IF a >= b THEN a ELSE b

Min(a, b) == IF a <= b THEN a ELSE b

Abs(a) == IF a >= 0 THEN a ELSE -a

\* Quotient truncated toward zero (b > 0).
TruncDiv(a, b) == IF a >= 0 THEN a \div b ELSE -((-a) \div b)

\* One unit (1.0) in thousandths.
One == 10 * 100

(***************************************************************************)
(* DecisionConfig  (agent_engine.py 32-71), in thousandths                 *)
(***************************************************************************)
CRITICAL_HUNGER == 850

CRITICAL_ENERGY == 100

CONVERSATION_RADIUS == 15

ENERGY_DECAY == 20

HUNGER_GROWTH == 15

LONELINESS_GROWTH == 20

RECENT_INTERACTION_HOURS == 500

MAP_WIDTH == 60

MAP_HEIGHT == 40

(***************************************************************************)
(* ActionType and LocationType (imported from agent_models; the members    *)
(* are those the engine and the worker name)                               *)
(***************************************************************************)
InteractTypes ==
    {"interact_food", "interact_rest", "interact_karaoke",
     "interact_social_hub", "interact_wander_point"}

ActionTypes ==
    {"idle", "wander", "walk_to_location", "initiate_conversation",
     "join_conversation", "leave_conversation", "avoid_avatar"}
    \cup InteractTypes

LocationTypes == {"food", "rest_area", "karaoke", "social_hub", "wander_point"}

(***************************************************************************)
(* Records.  A SelectedAction / CandidateAction is                         *)
(*   [action_type, target_type, target_id, tx, ty, utility_score,          *)
(*    duration_seconds]                                                    *)
(* target_type "none" is Python's target=None; duration_seconds 0 is the   *)
(* absent duration (execute_action tests it for truth only).               *)
(***************************************************************************)
Action(type, ttype, tid, tx, ty, score, dur) ==
    [action_type |-> type, target_type |-> ttype, target_id |-> tid,
     tx |-> tx, ty |-> ty, utility_score |-> score, duration_seconds |-> dur]

\* Python's None where an action is expected.
NoAction == Action("none", "none", "none", 0, 0, 0, 0)

NoEffects == [energy |-> 0, hunger |-> 0, loneliness |-> 0, mood |-> 0]

Effects(e, h, l, m) == [energy |-> e, hunger |-> h, loneliness |-> l, mood |-> m]

Needs(e, h, l, m) == [energy |-> e, hunger |-> h, loneliness |-> l, mood |-> m]

(***************************************************************************)
(* World reference data (table world_locations).  The rows are input data  *)
(* of the model: two food places, one of every other category; the         *)
(* wander point carries pathologically large effect deltas.                *)
(***************************************************************************)
Loc(id, type, x, y, eff, cd) ==
    [id |-> id, location_type |-> type, x |-> x, y |-> y, effects |-> eff,
     cooldown_seconds |-> cd]

WorldLocations ==
    << Loc("F1", "food", 2, 2, Effects(0, -500, 0, 50), 300),
       Loc("F2", "food", 6, 2, Effects(0, -400, 0, 0), 300),
       Loc("R1", "rest_area", 2, 5, Effects(500, 0, 0, 0), 300),
       Loc("K1", "karaoke", 9, 2, Effects(-100, 0, -200, 300), 300),
       Loc("S1", "social_hub", 9, 6, Effects(0, 0, -300, 100), 300),
       Loc("W1", "wander_point", 5, 9, Effects(-5000, 0, 0, 3000), 120) >>

LocIds == {WorldLocations[i].id : i \in 1..Len(WorldLocations)}

\* Squared distance; math.sqrt(d2) <= 2 is d2 <= 4 on integer coordinates.
DistSq(x1, y1, x2, y2) == (x1 - x2) * (x1 - x2) + (y1 - y2) * (y1 - y2)

(***************************************************************************)
(* Context snapshot (AgentContext).  A context is the record               *)
(*   [x, y, personality, state, nearby_avatars, active_cooldowns,          *)
(*    in_conversation, pending_conversation_requests]                      *)
(* world_locations is WorldLocations.  A nearby avatar is                  *)
(*   [avatar_id, x, y, distance, has_memory, sentiment, familiarity,       *)
(*    is_online]; has_memory says whether a social memory row for it is in *)
(*   context.social_memories.  A pending request is                        *)
(*   [initiator_id, initiator_type].                                       *)
(***************************************************************************)
Context(x, y, pers, st, nearby, cds, inconv, pending) ==
    [x |-> x, y |-> y, personality |-> pers, state |-> st,
     nearby_avatars |-> nearby, active_cooldowns |-> cds,
     in_conversation |-> inconv, pending_conversation_requests |-> pending]

Personality(soc, cur, agr, eb) ==
    [sociability |-> soc, curiosity |-> cur, agreeableness |-> agr,
     energy_baseline |-> eb]

Nearby(id, x, y, dist, hasmem, sent, fam, online) ==
    [avatar_id |-> id, x |-> x, y |-> y, distance |-> dist,
     has_memory |-> hasmem, sentiment |-> sent, familiarity |-> fam,
     is_online |-> online]

Request(id, type) == [initiator_id |-> id, initiator_type |-> type]

(***************************************************************************)
(* STATE UPDATES  (agent_engine.py 890-951)                                *)
(***************************************************************************)
\* apply_state_decay: tick_factor = elapsed / 300; the mood factor
\* 1 - 0.01 * tick_factor is (30000 - elapsed) / 30000 and is not clamped.
apply_state_decay(state, elapsed) ==
    [energy |-> Max(0, state.energy - TruncDiv(ENERGY_DECAY * elapsed, 300)),
     hunger |-> Min(One, state.hunger + TruncDiv(HUNGER_GROWTH * elapsed, 300)),
     loneliness |->
         Min(One, state.loneliness + TruncDiv(LONELINESS_GROWTH * elapsed, 300)),
     mood |-> TruncDiv(state.mood * (30000 - elapsed), 30000)]

\* apply_interaction_effects: every need is clamped after its delta.
apply_interaction_effects(state, effects) ==
    [energy |-> Max(0, Min(One, state.energy + effects.energy)),
     hunger |-> Max(0, Min(One, state.hunger + effects.hunger)),
     loneliness |-> Max(0, Min(One, state.loneliness + effects.loneliness)),
     mood |-> Max(-One, Min(One, state.mood + effects.mood))]

(***************************************************************************)
(* INTERRUPT HANDLING  (agent_engine.py 735-820)                           *)
(***************************************************************************)
\* The world locations of one category that are not on the cooldown list,
\* in list order.
UnblockedOfType(ctx, type) ==
    SelectSeq(WorldLocations,
              LAMBDA l : l.location_type = type /\ l.id \notin ctx.active_cooldowns)

\* min(locs, key = distance): the first location of least distance.
Closest(ctx, locs) ==
    LET d(i) == DistSq(locs[i].x, locs[i].y, ctx.x, ctx.y)
        k == CHOOSE i \in 1..Len(locs) :
                 /\ \A j \in 1..Len(locs) : d(j) >= d(i)
                 /\ \A j \in 1..(i - 1) : d(j) > d(i)
    IN  locs[k]

\* The interrupt's action at the closest location: interact when within the
\* interaction radius, walk there otherwise; utility 10.0, no duration.
GoToClosest(ctx, locs, interact) ==
    LET c == Closest(ctx, locs)
    IN  IF DistSq(c.x, c.y, ctx.x, ctx.y) <= 4
        THEN Action(interact, "location", c.id, c.x, c.y, 10 * One, 0)
        ELSE Action("walk_to_location", "location", c.id, c.x, c.y, 10 * One, 0)

\* Lines 742-763: critical hunger.
HungerInterrupt(ctx) ==
    IF ctx.state.hunger > CRITICAL_HUNGER /\ Len(UnblockedOfType(ctx, "food")) > 0
    THEN GoToClosest(ctx, UnblockedOfType(ctx, "food"), "interact_food")
    ELSE NoAction

\* Mutant: without the forced Idle when no rest location is free.
EnergyInterrupt_NoForcedIdle(ctx) ==
    IF ctx.state.energy < CRITICAL_ENERGY
       /\ Len(UnblockedOfType(ctx, "rest_area")) > 0
    THEN GoToClosest(ctx, UnblockedOfType(ctx, "rest_area"), "interact_rest")
    ELSE NoAction

\* Lines 765-793: critical energy.
EnergyInterrupt(ctx) ==
    IF ctx.state.energy < CRITICAL_ENERGY
    THEN IF Len(UnblockedOfType(ctx, "rest_area")) > 0
         THEN GoToClosest(ctx, UnblockedOfType(ctx, "rest_area"), "interact_rest")
         ELSE Action("idle", "none", "none", 0, 0, 5 * One, 30)
    ELSE NoAction

\* Mutant: only the request at index i is examined.
PendingInterrupt_OnlyOne(ctx, draws, i) ==
    LET reqs == ctx.pending_conversation_requests
    IN  IF i > Len(reqs) THEN NoAction
        ELSE IF reqs[i].initiator_type = "PLAYER"
                \/ draws[i] < ctx.personality.agreeableness
             THEN Action("join_conversation", "avatar", reqs[i].initiator_id,
                         0, 0, 10 * One, 0)
        ELSE NoAction

\* Lines 795-818: the pending requests from index i on; draws[i] is the
\* random.random() drawn for request i when it is not from a PLAYER.
RECURSIVE PendingInterrupt(_, _, _)
PendingInterrupt(ctx, draws, i) ==
    LET reqs == ctx.pending_conversation_requests
    IN  IF i > Len(reqs) THEN NoAction
        ELSE IF reqs[i].initiator_type = "PLAYER"
             THEN Action("join_conversation", "avatar", reqs[i].initiator_id,
                         0, 0, 10 * One, 0)
        ELSE IF draws[i] < ctx.personality.agreeableness
             THEN Action("join_conversation", "avatar", reqs[i].initiator_id,
                         0, 0, 5 * One, 0)
        ELSE PendingInterrupt(ctx, draws, i + 1)

\* Mutant: the energy rule tested before the hunger rule.
check_for_interrupts_EnergyFirst(ctx, draws) ==
    IF EnergyInterrupt(ctx) # NoAction THEN EnergyInterrupt(ctx)
    ELSE IF HungerInterrupt(ctx) # NoAction THEN HungerInterrupt(ctx)
    ELSE PendingInterrupt(ctx, draws, 1)

check_for_interrupts(ctx, draws) ==
    IF HungerInterrupt(ctx) # NoAction THEN HungerInterrupt(ctx)
    ELSE IF EnergyInterrupt(ctx) # NoAction THEN EnergyInterrupt(ctx)
    ELSE PendingInterrupt(ctx, draws, 1)

(***************************************************************************)
(* WORLD AFFINITY and RECENCY PENALTY  (agent_engine.py 301-375)           *)
(***************************************************************************)
LocationActions ==
    { "walk_to_location", "interact_food", "interact_karaoke", "interact_rest",
      "interact_social_hub", "interact_wander_point" }

\* Mutant: the "likes" segment rises faster than the "loves" segment starts.
calculate_world_affinity_SteepLikes(action, has_location, affinity) ==
    IF ~has_location THEN 0
    ELSE IF action \in LocationActions
         THEN IF affinity >= 700 THEN 600 + (affinity - 700) * 2
              ELSE IF affinity >= 500 THEN 200 + (affinity - 500) * 3
              ELSE affinity - 300
    ELSE 0

\* calculate_world_affinity, lines 301-340; has_location is "location is
\* not None", affinity the personality's affinity for the location's type.
calculate_world_affinity(action, has_location, affinity) ==
    IF ~has_location THEN 0
    ELSE IF action \in LocationActions
         THEN IF affinity >= 700 THEN 600 + (affinity - 700) * 2
              ELSE IF affinity >= 500 THEN 200 + (affinity - 500) * 2
              ELSE IF affinity >= 300 THEN affinity - 300
              ELSE affinity - 300
    ELSE 0

\* RECENT_INTERACTION_HOURS, line 60, in seconds.
RecentInteractionSeconds == TruncDiv(3600 * RECENT_INTERACTION_HOURS, One)

\* Lines 366-369: since is (utcnow() - last_interaction).total_seconds();
\* hours_since < RECENT_INTERACTION_HOURS is since < RecentInteractionSeconds.
ConversationRecency(since) ==
    IF since < RecentInteractionSeconds
    THEN TruncDiv(500 * (RecentInteractionSeconds - since),
                  RecentInteractionSeconds)
    ELSE 0

\* Mutant: the penalty is computed without the test against the window.
calculate_recency_penalty_NoWindow(action, has_memory, has_last, since, on_cooldown) ==
    (IF action = "initiate_conversation" /\ has_memory /\ has_last
     THEN TruncDiv(500 * (RecentInteractionSeconds - since),
                   RecentInteractionSeconds)
     ELSE 0)
    + (IF on_cooldown THEN One ELSE 0)

\* calculate_recency_penalty, lines 347-375; has_last is "social_memory.
\* last_interaction" being set, on_cooldown is "target_location and
\* target_location.id in active_cooldowns".
calculate_recency_penalty(action, has_memory, has_last, since, on_cooldown) ==
    (IF action = "initiate_conversation" /\ has_memory /\ has_last
     THEN ConversationRecency(since)
     ELSE 0)
    + (IF on_cooldown THEN One ELSE 0)

(***************************************************************************)
(* ACTION GENERATION  (agent_engine.py 382-613)                            *)
(***************************************************************************)
\* calculate_social_wander_target, lines 485-493: the blended displacement
\* (ddx, ddy) comes from the random angle and distance and the social
\* vector; the target is the position plus it, clamped with a margin of 2.
WanderTarget(ctx, ddx, ddy) ==
    << Max(2, Min(MAP_WIDTH - 2, ctx.x + ddx)),
       Max(2, Min(MAP_HEIGHT - 2, ctx.y + ddy)) >>

\* floor of m * d / sqrt(d2), for d2 >= 1 and d * d <= d2.
FloorScaled(m, d, d2) ==
    IF d >= 0
    THEN CHOOSE k \in 0..m :
             k * k * d2 <= m * m * d * d /\ (k + 1) * (k + 1) * d2 > m * m * d * d
    ELSE -(CHOOSE k \in 1..m :
               k * k * d2 >= m * m * d * d /\ (k - 1) * (k - 1) * d2 < m * m * d * d)

CeilScaled(m, d, d2) == -FloorScaled(m, -d, d2)

\* int(c + (d / dist) * 5) with dist = max(1, sqrt(d2)): int() truncates
\* toward zero.
FleeCoord(c, d, d2) ==
    IF d2 = 0 THEN c
    ELSE IF c + FloorScaled(5, d, d2) >= 0 THEN c + FloorScaled(5, d, d2)
    ELSE c + CeilScaled(5, d, d2)

\* Lines 574-582: the flee position, clamped to 1..73 and 1..54.
FleeTarget(ctx, nearby) ==
    LET dx == ctx.x - nearby.x
        dy == ctx.y - nearby.y
        d2 == dx * dx + dy * dy
    IN  << Max(1, Min(73, FleeCoord(ctx.x, dx, d2))),
           Max(1, Min(54, FleeCoord(ctx.y, dy, d2))) >>

\* Lines 535-546: the interaction of a location category.
InteractTypeOf(type) ==
    CASE type = "food" -> "interact_food"
      [] type = "karaoke" -> "interact_karaoke"
      [] type = "rest_area" -> "interact_rest"
      [] type = "social_hub" -> "interact_social_hub"
      [] type = "wander_point" -> "interact_wander_point"
      [] OTHER -> "none"

\* Mutant: the cooldown of the location is not consulted.
LocationCandidate_NoCooldown(ctx, loc) ==
    IF DistSq(loc.x, loc.y, ctx.x, ctx.y) <= 4
    THEN IF InteractTypeOf(loc.location_type) = "none" THEN NoAction
         ELSE Action(InteractTypeOf(loc.location_type), "location", loc.id,
                     loc.x, loc.y, 0, 0)
    ELSE Action("walk_to_location", "location", loc.id, loc.x, loc.y, 0, 0)

\* Lines 524-560: the candidate of one location, NoAction when it is skipped.
LocationCandidate(ctx, loc) ==
    IF loc.id \in ctx.active_cooldowns THEN NoAction
    ELSE IF DistSq(loc.x, loc.y, ctx.x, ctx.y) <= 4
         THEN IF InteractTypeOf(loc.location_type) = "none" THEN NoAction
              ELSE Action(InteractTypeOf(loc.location_type), "location", loc.id,
                          loc.x, loc.y, 0, 0)
    ELSE Action("walk_to_location", "location", loc.id, loc.x, loc.y, 0, 0)

\* Lines 564-604: the candidate of one nearby avatar, NoAction when none.
SocialCandidate(ctx, nearby) ==
    IF nearby.has_memory /\ nearby.sentiment < -300
       /\ nearby.distance <= CONVERSATION_RADIUS + 4
    THEN Action("avoid_avatar", "avatar", nearby.avatar_id,
                FleeTarget(ctx, nearby)[1], FleeTarget(ctx, nearby)[2], 0, 0)
    ELSE IF nearby.distance <= CONVERSATION_RADIUS
         THEN Action("initiate_conversation", "avatar", nearby.avatar_id,
                     nearby.x, nearby.y, 0, 0)
    ELSE NoAction

Present(seq) == SelectSeq(seq, LAMBDA a : a # NoAction)

\* Mutant: the list starts without the Idle and Wander candidates.
generate_candidate_actions_NoDefaults(ctx, ddx, ddy) ==
    Present([i \in 1..Len(WorldLocations) |->
                 LocationCandidate(ctx, WorldLocations[i])])
    \o (IF ctx.in_conversation THEN << >>
        ELSE Present([i \in 1..Len(ctx.nearby_avatars) |->
                          SocialCandidate(ctx, ctx.nearby_avatars[i])]))
    \o (IF ctx.in_conversation
        THEN << Action("leave_conversation", "none", "none", 0, 0, 0, 0) >>
        ELSE << >>)

\* Mutant: a conversation does not add the Leave-Conversation candidate.
generate_candidate_actions_NoLeave(ctx, ddx, ddy) ==
    << Action("idle", "none", "none", 0, 0, 0, 0),
       Action("wander", "position", "none",
              WanderTarget(ctx, ddx, ddy)[1], WanderTarget(ctx, ddx, ddy)[2], 0, 0) >>
    \o Present([i \in 1..Len(WorldLocations) |->
                    LocationCandidate(ctx, WorldLocations[i])])
    \o (IF ctx.in_conversation THEN << >>
        ELSE Present([i \in 1..Len(ctx.nearby_avatars) |->
                          SocialCandidate(ctx, ctx.nearby_avatars[i])]))

generate_candidate_actions(ctx, ddx, ddy) ==
    << Action("idle", "none", "none", 0, 0, 0, 0),
       Action("wander", "position", "none",
              WanderTarget(ctx, ddx, ddy)[1], WanderTarget(ctx, ddx, ddy)[2], 0, 0) >>
    \o Present([i \in 1..Len(WorldLocations) |->
                    LocationCandidate(ctx, WorldLocations[i])])
    \o (IF ctx.in_conversation THEN << >>
        ELSE Present([i \in 1..Len(ctx.nearby_avatars) |->
                          SocialCandidate(ctx, ctx.nearby_avatars[i])]))
    \o (IF ctx.in_conversation
        THEN << Action("leave_conversation", "none", "none", 0, 0, 0, 0) >>
        ELSE << >>)

(***************************************************************************)
(* MAIN DECISION FUNCTION  (agent_engine.py 827-883)                       *)
(***************************************************************************)
calculate_action_duration(type) ==
    CASE type = "idle" -> 5
      [] type = "wander" -> 8
      [] type = "walk_to_location" -> 10
      [] type \in InteractTypes -> 6
      [] type \in {"initiate_conversation", "join_conversation"} -> 30
      [] type = "leave_conversation" -> 2
      [] OTHER -> 6

\* score_all_actions, lines 620-688: every utility is a sum of bounded
\* terms plus random.gauss(0, 0.1) * 0.3, which is unbounded, so the
\* utility of candidate i can be any number: utilities[i].
score_all_actions(cands, utilities) ==
    [i \in 1..Len(cands) |-> [cands[i] EXCEPT !.utility_score = utilities[i]]]

SOFTMAX_TEMPERATURE == 300

\* math.exp(-n) in thousandths, n = 0, 1, 2, ...
ExpTable == << 1000, 368, 135, 50, 18, 7, 2, 1 >>

\* Lines 709-713: math.exp(s - max_score) with s = utility / temperature; the
\* utilities of the model differ by multiples of the temperature.
ExpScore(utility, max_utility) ==
    LET n == (max_utility - utility) \div SOFTMAX_TEMPERATURE
    IN  IF n + 1 <= Len(ExpTable) THEN ExpTable[n + 1] ELSE 0

RECURSIVE SumSeq(_, _)
SumSeq(seq, n) == IF n = 0 THEN 0 ELSE seq[n] + SumSeq(seq, n - 1)

MaxUtility(actions) ==
    CHOOSE m \in { actions[i].utility_score : i \in 1..Len(actions) } :
        \A i \in 1..Len(actions) : actions[i].utility_score <= m

\* Lines 714-717: the probabilities, in thousandths; the division rounds, so
\* their sum can fall short of one.
Probabilities(actions) ==
    LET max_utility == MaxUtility(actions)
        e == [i \in 1..Len(actions) |->
                  ExpScore(actions[i].utility_score, max_utility)]
        sum_exp == SumSeq(e, Len(actions))
    IN  [i \in 1..Len(actions) |-> (One * e[i]) \div sum_exp]

Selection(status, drew, a) == [status |-> status, drew |-> drew, action |-> a]

\* Mutant: the fallback after the loop is missing and nothing is returned
\* when the cumulative probability never reaches the draw.
softmax_select_NoFallback(actions, r) ==
    IF Len(actions) = 0 THEN Selection("ValueError", FALSE, NoAction)
    ELSE IF Len(actions) = 1 THEN Selection("ok", FALSE, actions[1])
    ELSE LET p == Probabilities(actions)
             hit == { i \in 1..Len(actions) : r <= SumSeq(p, i) }
         IN  IF hit # {}
             THEN Selection("ok", TRUE,
                            actions[CHOOSE i \in hit : \A j \in hit : i <= j])
             ELSE Selection("ok", TRUE, NoAction)

\* softmax_select, lines 696-728; r is the random.random() of line 720.
softmax_select(actions, r) ==
    IF Len(actions) = 0 THEN Selection("ValueError", FALSE, NoAction)
    ELSE IF Len(actions) = 1 THEN Selection("ok", FALSE, actions[1])
    ELSE LET p == Probabilities(actions)
             hit == { i \in 1..Len(actions) : r <= SumSeq(p, i) }
         IN  IF hit # {}
             THEN Selection("ok", TRUE,
                            actions[CHOOSE i \in hit : \A j \in hit : i <= j])
             ELSE Selection("ok", TRUE, actions[Len(actions)])

\* Mutant: the candidates are sampled without the positive-utility filter.
PositiveFilter_Off(scored) == scored

\* Lines 847-850: the candidates of positive utility, or all of them when
\* none is positive.
PositiveFilter(scored) ==
    LET positive_actions == SelectSeq(scored, LAMBDA a : a.utility_score > 0)
    IN  IF positive_actions # << >> THEN positive_actions ELSE scored

\* Lines 852-863: select and convert to a SelectedAction with its duration.
SelectFromScored(scored, r) ==
    LET selected == softmax_select(PositiveFilter(scored), r).action
    IN  Action(selected.action_type, selected.target_type, selected.target_id,
               selected.tx, selected.ty, selected.utility_score,
               calculate_action_duration(selected.action_type))

\* The longest candidate list: Idle, Wander, every location, and the nearby
\* avatars of the model's contexts.
MaxCandidates == Len(WorldLocations) + 4

\* Utilities under which only candidate j is positive.
OnlyPositive(j) == [i \in 1..MaxCandidates |-> IF i = j THEN 700 ELSE -200]

\* rnd = [draws, ddx, ddy, utilities, r]: every random draw of one decision.
make_decision(ctx, rnd) ==
    IF check_for_interrupts(ctx, rnd.draws) # NoAction
    THEN check_for_interrupts(ctx, rnd.draws)
    ELSE SelectFromScored(
             score_all_actions(generate_candidate_actions(ctx, rnd.ddx, rnd.ddy),
                               rnd.utilities),
             rnd.r)

(***************************************************************************)
(* ACTION EXECUTION  (agent_worker.py 74-174)                              *)
(* execute_action returns the new need state and makes at most one store   *)
(* call; the model returns both:                                           *)
(*   [state, call, x, y, loc]                                              *)
(* call is "none", "position" (update_avatar_position to x, y),            *)
(* "interaction" (record_world_interaction at location loc) or "social"    *)
(* (update_social_memory toward the target).  The bookkeeping fields       *)
(* current_action, action_started_at and action_expires_at carry no need   *)
(* value and are left out.                                                 *)
(***************************************************************************)
Executed(state, call, x, y, loc) ==
    [state |-> state, call |-> call, x |-> x, y |-> y, loc |-> loc]

\* next(l for l in world_locations if l.id == target_id): the set holds the
\* location, or is empty for None.
LocationById(id) ==
    { WorldLocations[i] : i \in { j \in 1..Len(WorldLocations) : WorldLocations[j].id = id } }

\* Lines 99-103: up to 3 units on each axis.
WanderStep(c, t) == c + Max(-3, Min(3, t - c))

\* Mutant: the offset is scaled to one unit instead of three.
WalkStep_OneUnit(d, d2) ==
    IF d2 <= 1 THEN d
    ELSE IF d >= 0 THEN FloorScaled(1, d, d2) ELSE CeilScaled(1, d, d2)

\* Lines 127-129: int(d * min(1.0, 3.0 / distance)), for distance > 2.
\* The product d * (3.0 / distance) is computed in binary floating point.
\* Its exact value is a whole number only along an axis (d2 = d * d), where
\* it is 3; for |d| up to 80 the computed product is 3.0 except for
\* |d| = 47, where it is 2.9999999999999996 and int() gives 2.
WalkStep(d, d2) ==
    IF d2 <= 9 THEN d
    ELSE IF d2 = d * d /\ Abs(d) = 47 THEN (IF d >= 0 THEN 2 ELSE -2)
    ELSE IF d >= 0 THEN FloorScaled(3, d, d2) ELSE CeilScaled(3, d, d2)

\* Mutant: the walk branch interacts within distance 3 instead of 2.
ExecuteWalk_Radius3(ctx, loc) ==
    LET dx == loc.x - ctx.x
        dy == loc.y - ctx.y
        d2 == dx * dx + dy * dy
    IN  IF d2 <= 9
        THEN Executed(apply_interaction_effects(ctx.state, loc.effects),
                      "interaction", ctx.x, ctx.y, loc.id)
        ELSE Executed(apply_interaction_effects(ctx.state, Effects(-20, 0, 0, 0)),
                      "position", ctx.x + WalkStep(dx, d2), ctx.y + WalkStep(dy, d2),
                      "none")

\* Lines 107-133.
ExecuteWalk(ctx, loc) ==
    LET dx == loc.x - ctx.x
        dy == loc.y - ctx.y
        d2 == dx * dx + dy * dy
    IN  IF d2 <= 4
        THEN Executed(apply_interaction_effects(ctx.state, loc.effects),
                      "interaction", ctx.x, ctx.y, loc.id)
        ELSE Executed(apply_interaction_effects(ctx.state, Effects(-20, 0, 0, 0)),
                      "position", ctx.x + WalkStep(dx, d2), ctx.y + WalkStep(dy, d2),
                      "none")

execute_action(ctx, a) ==
    CASE a.action_type = "idle" ->
            Executed(apply_interaction_effects(ctx.state, Effects(50, 0, 0, 10)),
                     "none", ctx.x, ctx.y, "none")
      [] a.action_type = "wander" ->
            IF a.target_type # "none"
            THEN Executed(apply_interaction_effects(ctx.state, Effects(-30, 0, 0, 20)),
                          "position", WanderStep(ctx.x, a.tx), WanderStep(ctx.y, a.ty),
                          "none")
            ELSE Executed(apply_interaction_effects(ctx.state, Effects(-30, 0, 0, 20)),
                          "none", ctx.x, ctx.y, "none")
      [] a.action_type = "walk_to_location" ->
            IF a.target_id # "none" /\ LocationById(a.target_id) # {}
            THEN ExecuteWalk(ctx, CHOOSE l \in LocationById(a.target_id) : TRUE)
            ELSE Executed(ctx.state, "none", ctx.x, ctx.y, "none")
      [] a.action_type \in {"interact_food", "interact_karaoke", "interact_rest"} ->
            IF a.target_id # "none" /\ LocationById(a.target_id) # {}
            THEN LET loc == CHOOSE l \in LocationById(a.target_id) : TRUE
                 IN  Executed(apply_interaction_effects(ctx.state, loc.effects),
                              "interaction", ctx.x, ctx.y, loc.id)
            ELSE Executed(ctx.state, "none", ctx.x, ctx.y, "none")
      [] a.action_type = "initiate_conversation" ->
            IF a.target_id # "none"
            THEN Executed(apply_interaction_effects(ctx.state, Effects(-50, 0, -200, 0)),
                          "social", ctx.x, ctx.y, "none")
            ELSE Executed(ctx.state, "none", ctx.x, ctx.y, "none")
      [] a.action_type = "join_conversation" ->
            Executed(apply_interaction_effects(ctx.state, Effects(0, 0, -150, 50)),
                     "none", ctx.x, ctx.y, "none")
      [] OTHER -> Executed(ctx.state, "none", ctx.x, ctx.y, "none")

(***************************************************************************)
(* State                                                                   *)
(***************************************************************************)
VARIABLES
    \* One call of make_decision (specification SpecDecide)
    dctx,       \* the context snapshot it is given
    dphase,     \* "start", "interrupted", "generated" or "selected"
    dcands,     \* the generated candidates
    dresult,    \* the SelectedAction it returns
    \* The store, for one avatar (specifications Spec and SpecStore)
    now,              \* datetime.utcnow(), seconds
    tick_lock_until,  \* agent_state.tick_lock_until; 0 is NULL
    has_position,     \* a user_positions row exists
    personality_row,  \* agent_personality: 0 no row, n the n-th row written
    has_state,        \* an agent_state row exists
    cooldown_until,   \* world_interactions for location F1: latest cooldown_until
    duplicate_interaction, \* a record was inserted while a cooldown was running
    social_rows,      \* agent_social_memory rows for the pair (avatar, n1)
    interaction_count,\* interaction_count of that pair's row
    social_calls,     \* completed update_social_memory calls for the pair
    \* Invocations of process_agent_tick
    started,    \* invocations started so far
    pc,         \* where each invocation stands
    acq,        \* what its acquire_tick_lock call did
    outcome,    \* what it returned
    releases,   \* release_tick_lock calls it has issued
    snap,       \* what its context snapshot holds
    action,     \* the action type make_decision returned to it
    \* One endpoint request of main.py (specification SpecStore)
    ep,         \* its kind, position and what it has read
    \* The stored values (specification SpecNeeds)
    needs,      \* agent_state: energy, hunger, loneliness, mood
    memory,     \* agent_social_memory row of the pair (avatar, n1)
    nsteps,     \* operations completed
    \* One call of softmax_select (specification SpecSelect)
    sactions,   \* the scored candidates it is given
    sdraw,      \* the random.random() it drew, in thousandths
    sresult,    \* what it returned or raised
    \* One call of execute_action (specification SpecExecute)
    xctx,       \* the context snapshot it is given
    xaction,    \* the SelectedAction it is given
    xphase,     \* "start" or "executed"
    xstate,     \* the AgentState it returns
    xposition,  \* user_positions: the stored position of the avatar
    xinteractions, \* world_interactions: locations with a recorded interaction
    xmemory,    \* agent_social_memory row of the pair (avatar, target)
    \* One call of the scoring components (specification SpecScore)
    score_input,  \* the candidate and the data score_action found for it
    score_output, \* the world affinity and the recency penalty returned
    \* One call of apply_state_decay (specification SpecDecay)
    decay_input,  \* the AgentState and the elapsed seconds it is given
    decay_output, \* the AgentState it returns
    \* Successive walk_to_location ticks (specification SpecWalk)
    walk_moved,    \* whether a tick has moved the avatar
    walk_position, \* user_positions: the stored position of the avatar
    walk_location, \* the id of the location walked to
    \* The decision log of a debug tick (specification SpecAudit)
    available_actions \* AgentDecisionLog.available_actions

decideVars == << dctx, dphase, dcands, dresult >>

storeVars ==
    << now, tick_lock_until, has_position, personality_row, has_state,
       cooldown_until, duplicate_interaction, social_rows, interaction_count,
       social_calls >>

tickVars == << started, pc, acq, outcome, releases, snap, action >>

needVars == << needs, memory, nsteps >>

selectVars == << sactions, sdraw, sresult >>

executeVars ==
    << xctx, xaction, xphase, xstate, xposition, xinteractions, xmemory >>

scoreVars == << score_input, score_output >>

\* The variables of the specifications of single functions.
decayVars == << decay_input, decay_output >>

walkVars == << walk_moved, walk_position, walk_location >>

auditVars == << available_actions >>

functionVars ==
    << selectVars, executeVars, scoreVars, decayVars, walkVars, auditVars >>

vars == << decideVars, storeVars, tickVars, ep, needVars, functionVars >>

(***************************************************************************)
(* The store and the tick lock                                             *)
(***************************************************************************)
\* acquire_tick_lock's default lock_duration_seconds.
TickLockSeconds == 60

\* Invocations of process_agent_tick started in one behaviour.
MaxInvocations == 3

\* Steps of the clock, each of TickLockSeconds.
MaxAdvances == 1

TickProcs == {"t1", "t2"}

\* RPC acquire_agent_tick_lock grants the lock when tick_lock_until is NULL
\* or has passed, and sets it lock_duration_seconds ahead.
LockFree == tick_lock_until <= now

LockedUntil == now + TickLockSeconds

\* RPC release_agent_tick_lock clears tick_lock_until, whoever calls it.
Unlocked == 0

\* Mutant: the snapshot lists no cooldown.
OnCooldown_Never == FALSE

\* get_active_cooldowns: rows with cooldown_until > now.
OnCooldown == cooldown_until > now

NoSnapshot ==
    [state_read |-> FALSE, stale |-> FALSE, overwrote |-> FALSE,
     on_cooldown |-> FALSE, soc_found |-> FALSE, soc_count |-> 0]

NoEndpoint ==
    [kind |-> "none", pc |-> "idle", requests |-> 0, personality_read |-> FALSE,
     state_read |-> FALSE, stale |-> FALSE, overwrote |-> FALSE,
     soc_found |-> FALSE, soc_count |-> 0]

\* The variables of make_decision's own specification, at rest.
DecideAtRest ==
    /\ dctx = Context(2, 2, Personality(500, 500, 500, 500), Needs(500, 500, 500, 0),
                      << >>, {}, FALSE, << >>)
    /\ dphase = "rest"
    /\ dcands = << >>
    /\ dresult = NoAction

StoreAtRest ==
    /\ now = 0
    /\ tick_lock_until = 0
    /\ has_position = TRUE
    /\ personality_row = 1
    /\ has_state = TRUE
    /\ cooldown_until = 0
    /\ duplicate_interaction = FALSE
    /\ social_rows = 0
    /\ interaction_count = 0
    /\ social_calls = 0

NoMemory == [exists |-> FALSE, sentiment |-> 0, familiarity |-> 0]

NeedsAtRest ==
    /\ needs = Needs(500, 500, 500, 0)
    /\ memory = NoMemory
    /\ nsteps = 0

NoSelection == Selection("none", FALSE, NoAction)

SelectAtRest ==
    /\ sactions = << >>
    /\ sdraw = 0
    /\ sresult = NoSelection

ExecuteAtRest ==
    /\ xctx = Context(2, 2, Personality(500, 500, 500, 500), Needs(500, 500, 500, 0),
                      << >>, {}, FALSE, << >>)
    /\ xaction = NoAction
    /\ xphase = "rest"
    /\ xstate = Needs(500, 500, 500, 0)
    /\ xposition = << 2, 2 >>
    /\ xinteractions = {}
    /\ xmemory = NoMemory

NoScoreInput ==
    [action_type |-> "none", has_location |-> FALSE, affinity |-> 500,
     on_cooldown |-> FALSE, has_memory |-> FALSE, has_last_interaction |-> FALSE,
     since |-> 0]

NoScoreOutput == [scored |-> FALSE, world_affinity |-> 0, recency_penalty |-> 0]

ScoreAtRest ==
    /\ score_input = NoScoreInput
    /\ score_output = NoScoreOutput

NoDecayOutput == [returned |-> FALSE, state |-> Needs(500, 500, 500, 0)]

DecayAtRest ==
    /\ decay_input = [state |-> Needs(500, 500, 500, 0), elapsed |-> 0]
    /\ decay_output = NoDecayOutput

AuditAtRest == available_actions = << >>

WalkAtRest ==
    /\ walk_moved = FALSE
    /\ walk_position = << 2, 2 >>
    /\ walk_location = "none"

FunctionsAtRest ==
    /\ SelectAtRest /\ ExecuteAtRest /\ ScoreAtRest /\ DecayAtRest
    /\ WalkAtRest /\ AuditAtRest

TicksAtRest ==
    /\ started = 0
    /\ pc = [i \in TickProcs |-> "idle"]
    /\ acq = [i \in TickProcs |-> "none"]
    /\ outcome = [i \in TickProcs |-> "none"]
    /\ releases = [i \in TickProcs |-> 0]
    /\ snap = [i \in TickProcs |-> NoSnapshot]
    /\ action = [i \in TickProcs |-> NoAction]

\* Before any request: the avatar may have no position row, and may have no
\* agent rows yet.
StoreInit ==
    /\ now = 0
    /\ tick_lock_until = 0
    /\ has_position \in BOOLEAN
    /\ \E rows \in BOOLEAN :
        /\ personality_row = IF rows THEN 1 ELSE 0
        /\ has_state = rows
    /\ cooldown_until = 0
    /\ duplicate_interaction = FALSE
    /\ social_rows = 0
    /\ interaction_count = 0
    /\ social_calls = 0

(***************************************************************************)
(* SpecDecide: make_decision on every context of a bounded family          *)
(***************************************************************************)
DecidePositions == { <<2, 2>>, <<4, 2>>, <<2, 4>>, <<9, 4>>, <<20, 20>> }

DecideHungers == {850, 851, 1000}

DecideEnergies == {0, 99, 100}

DecideCooldowns ==
    { {}, {"F1"}, {"F1", "F2"}, {"R1"}, {"F1", "F2", "R1"}, LocIds }

DecidePending ==
    { << >>,
      << Request("p1", "PLAYER") >>,
      << Request("r1", "ROBOT") >>,
      << Request("r1", "ROBOT"), Request("p1", "PLAYER") >> }

DecideAgreeableness == {0, 500}

\* Nobody; a stranger at distance 3 and a disliked avatar at distance 10;
\* a disliked avatar and a liked one, both at distance 17, between the
\* conversation radius and the flee radius.
DecideNearby ==
    { << >>,
      << Nearby("n1", 7, 2, 3, FALSE, 0, 0, TRUE),
         Nearby("n2", 2, 12, 10, TRUE, -800, 400, FALSE) >>,
      << Nearby("n3", 19, 2, 17, TRUE, -301, 400, FALSE),
         Nearby("n4", 2, 19, 17, TRUE, 600, 400, FALSE) >> }

\* random.random() for the pending requests, in thousandths of [0, 1).
UniformDraws == {0, 499, 500, 999}

DrawSeqs == [1..2 -> UniformDraws]

\* Blended wander displacements.
WanderOffsets == { <<-15, -15>>, <<3, -4>>, <<15, 15>> }

\* Utilities a candidate can be scored with.
UtilityDraws == {-200, 100, 700}

\* The utilities of one decision, by position in the candidate list: all
\* alike, only the third candidate positive, and graded by position.
DecideUtilities ==
    { [i \in 1..MaxCandidates |-> u] : u \in UtilityDraws }
    \cup { OnlyPositive(3),
           [i \in 1..MaxCandidates |->
               IF i % 3 = 0 THEN -200 ELSE IF i % 3 = 1 THEN 100 ELSE 700] }

DecideInit ==
    /\ dctx \in
        { Context(p[1], p[2], Personality(500, 500, a, 500),
                  Needs(e, h, 500, 0), n, c, ic, r) :
            p \in DecidePositions, a \in DecideAgreeableness,
            e \in DecideEnergies, h \in DecideHungers, n \in DecideNearby,
            c \in DecideCooldowns, ic \in BOOLEAN, r \in DecidePending }
    /\ dphase = "start"
    /\ dcands = << >>
    /\ dresult = NoAction
    /\ StoreAtRest
    /\ TicksAtRest
    /\ ep = NoEndpoint
    /\ NeedsAtRest
    /\ FunctionsAtRest

\* Lines 839-841: the interrupt filter fires and its action is returned.
DecideInterrupt ==
    /\ dphase = "start"
    /\ \E draws \in DrawSeqs :
        /\ check_for_interrupts(dctx, draws) # NoAction
        /\ dresult' = check_for_interrupts(dctx, draws)
    /\ dphase' = "interrupted"
    /\ UNCHANGED << dctx, dcands, storeVars, tickVars, ep, needVars,
                    functionVars >>

\* Lines 843-845: no interrupt; the candidates are generated (and scored).
DecideGenerate ==
    /\ dphase = "start"
    /\ \E draws \in DrawSeqs : check_for_interrupts(dctx, draws) = NoAction
    /\ \E w \in WanderOffsets, utilities \in DecideUtilities :
        dcands' = score_all_actions(
                      generate_candidate_actions(dctx, w[1], w[2]), utilities)
    /\ dphase' = "generated"
    /\ UNCHANGED << dctx, dresult, storeVars, tickVars, ep, needVars,
                    functionVars >>

\* Lines 847-863: one candidate is selected and returned with its duration.
DecideSelect ==
    /\ dphase = "generated"
    /\ \E r \in UniformDraws : dresult' = SelectFromScored(dcands, r)
    /\ dphase' = "selected"
    /\ UNCHANGED << dctx, dcands, storeVars, tickVars, ep, needVars,
                    functionVars >>

DecideNext == DecideInterrupt \/ DecideGenerate \/ DecideSelect

SpecDecide == DecideInit /\ [][DecideNext]_vars

(***************************************************************************)
(* Claims about make_decision (SpecDecide)                                 *)
(***************************************************************************)
\* The world locations of a category that are not on the context's cooldown
\* list, as a set.
FreeLocations(ctx, type) ==
    { WorldLocations[i] : i \in
        { j \in 1..Len(WorldLocations) :
            /\ WorldLocations[j].location_type = type
            /\ WorldLocations[j].id \notin ctx.active_cooldowns } }

\* a is the need-directed action at a closest free location of the category:
\* the interaction within distance 2, walk-to-location beyond it.
DirectedAtClosest(a, ctx, type, interact) ==
    \E t \in FreeLocations(ctx, type) :
        /\ a.target_type = "location" /\ a.target_id = t.id
        /\ \A l \in FreeLocations(ctx, type) :
               DistSq(t.x, t.y, ctx.x, ctx.y) <= DistSq(l.x, l.y, ctx.x, ctx.y)
        /\ a.action_type =
               IF DistSq(t.x, t.y, ctx.x, ctx.y) <= 4 THEN interact
               ELSE "walk_to_location"

HungerFires(ctx) ==
    ctx.state.hunger > CRITICAL_HUNGER /\ FreeLocations(ctx, "food") # {}

\* C9: when hunger is above 0.85 and a food location is off cooldown,
\* make_decision returns the interrupt's food-directed action at the closest
\* such location (interact_food within distance 2, walk_to_location beyond),
\* whatever the energy, the pending requests, the nearby avatars, the
\* conversation status and the random draws; candidates are never generated.
C9_HungerInterruptFood ==
    (dphase # "start" /\ HungerFires(dctx)) =>
        /\ dphase = "interrupted"
        /\ DirectedAtClosest(dresult, dctx, "food", "interact_food")
        /\ dresult.utility_score = 10 * One

\* Witness of C9: critical hunger together with critical energy, a pending
\* PLAYER request and a conversation in progress; F1 is on cooldown and the
\* decision walks to F2.
C9_Witness ==
    /\ dphase = "interrupted"
    /\ dctx.state.hunger = 851 /\ dctx.state.energy = 0
    /\ dctx.in_conversation
    /\ Len(dctx.pending_conversation_requests) = 1
    /\ dctx.pending_conversation_requests[1].initiator_type = "PLAYER"
    /\ dctx.active_cooldowns = {"F1"}
    /\ dresult.action_type = "walk_to_location" /\ dresult.target_id = "F2"

\* C10: when the hunger interrupt does not fire and energy is below 0.1 the
\* decision is the rest-directed action at the closest free rest location,
\* or, when there is none, Idle for 30 seconds; pending requests play no
\* part.  When neither need is critical a decision made by the interrupt
\* filter can only be the join-conversation of the third rule.
C10_EnergyInterrupt ==
    /\ (dphase # "start" /\ ~HungerFires(dctx)
        /\ dctx.state.energy < CRITICAL_ENERGY) =>
            /\ dphase = "interrupted"
            /\ IF FreeLocations(dctx, "rest_area") # {}
               THEN DirectedAtClosest(dresult, dctx, "rest_area", "interact_rest")
               ELSE /\ dresult.action_type = "idle"
                    /\ dresult.target_type = "none"
                    /\ dresult.duration_seconds = 30
    /\ (dphase = "interrupted" /\ dctx.state.hunger <= CRITICAL_HUNGER
        /\ dctx.state.energy >= CRITICAL_ENERGY) =>
            dresult.action_type = "join_conversation"

\* Witness of C10: energy critical, the only rest location on cooldown and a
\* PLAYER request pending: the decision is the forced Idle.
C10_Witness ==
    /\ dphase = "interrupted"
    /\ dctx.state.energy = 99 /\ dctx.state.hunger = 1000
    /\ dctx.active_cooldowns = {"F1", "F2", "R1"}
    /\ Len(dctx.pending_conversation_requests) = 2
    /\ dresult.action_type = "idle" /\ dresult.duration_seconds = 30

\* Neither need interrupt applies to the context.
NeitherNeedFires(ctx) ==
    /\ ~HungerFires(ctx)
    /\ ctx.state.energy >= CRITICAL_ENERGY

\* The pending requests that are accepted under the draws: those of a
\* PLAYER, and those of others whose draw is below agreeableness.
Accepted(ctx, draws) ==
    { i \in 1..Len(ctx.pending_conversation_requests) :
        \/ ctx.pending_conversation_requests[i].initiator_type = "PLAYER"
        \/ draws[i] < ctx.personality.agreeableness }

FirstOf(indices) == CHOOSE i \in indices : \A j \in indices : i <= j

\* C11: when neither need interrupt fires the pending requests are taken in
\* list order; a PLAYER request is always accepted, another by one draw
\* below agreeableness (never at agreeableness 0); the interrupt is the
\* Join-Conversation with the first accepted requester, whatever the later
\* requests and draws; with no request accepted there is no interrupt and
\* the candidates are generated.
C11_PendingRequests ==
    NeitherNeedFires(dctx) =>
        /\ \A draws \in DrawSeqs :
            IF Accepted(dctx, draws) = {}
            THEN check_for_interrupts(dctx, draws) = NoAction
            ELSE /\ check_for_interrupts(dctx, draws).action_type = "join_conversation"
                 /\ check_for_interrupts(dctx, draws).target_id =
                        dctx.pending_conversation_requests[
                            FirstOf(Accepted(dctx, draws))].initiator_id
        /\ dphase = "interrupted" =>
            \E draws \in DrawSeqs :
                /\ Accepted(dctx, draws) # {}
                /\ dresult.action_type = "join_conversation"
                /\ dresult.target_id =
                       dctx.pending_conversation_requests[
                           FirstOf(Accepted(dctx, draws))].initiator_id
        /\ dphase \in {"generated", "selected"} =>
            \E draws \in DrawSeqs : Accepted(dctx, draws) = {}
        /\ (dctx.personality.agreeableness = 0 /\ dphase = "interrupted") =>
            \E i \in 1..Len(dctx.pending_conversation_requests) :
                /\ dctx.pending_conversation_requests[i].initiator_type = "PLAYER"
                /\ dctx.pending_conversation_requests[i].initiator_id
                       = dresult.target_id

\* Witness of C11: agreeableness 0, a ROBOT request ahead of a PLAYER
\* request, no critical need: the robot is passed over and the decision
\* joins the player.
C11_Witness ==
    /\ dphase = "interrupted"
    /\ NeitherNeedFires(dctx)
    /\ dctx.personality.agreeableness = 0
    /\ Len(dctx.pending_conversation_requests) = 2
    /\ dctx.pending_conversation_requests[1].initiator_type = "ROBOT"
    /\ dresult.action_type = "join_conversation" /\ dresult.target_id = "p1"

\* C12: the candidate list always starts with Idle and Wander, so it has at
\* least two entries, and the list handed to the selector, the positive
\* utilities or else the full set, is never empty: selection never raises.
C12_NeverEmpty ==
    /\ dphase = "start" =>
        \A w \in WanderOffsets :
            LET cands == generate_candidate_actions(dctx, w[1], w[2])
            IN  /\ Len(cands) >= 2
                /\ cands[1].action_type = "idle"
                /\ cands[2].action_type = "wander"
    /\ dphase = "generated" =>
        /\ Len(dcands) >= 2
        /\ PositiveFilter(dcands) # << >>
        /\ \A r \in UniformDraws :
               softmax_select(PositiveFilter(dcands), r).status = "ok"
    /\ dphase = "selected" => dresult # NoAction

\* Witness of C12: every location on cooldown, nobody near, no conversation:
\* Idle and Wander are the only candidates, none of positive utility, and a
\* decision is still selected.
C12_Witness ==
    /\ dphase = "selected"
    /\ Len(dcands) = 2
    /\ \A i \in 1..Len(dcands) : dcands[i].utility_score <= 0
    /\ dresult.action_type \in {"idle", "wander"}

\* The candidates of a list that target the location.
Targeting(cands, loc) ==
    { i \in 1..Len(cands) :
        cands[i].target_type = "location" /\ cands[i].target_id = loc.id }

\* The direct interaction of each location category.
CategoryInteractions ==
    { <<"food", "interact_food">>, <<"karaoke", "interact_karaoke">>,
      <<"rest_area", "interact_rest">>,
      <<"social_hub", "interact_social_hub">>,
      <<"wander_point", "interact_wander_point">> }

\* C13: among the generated candidates no candidate targets a location on
\* cooldown, and exactly one targets each other location: the interaction
\* of its category when the avatar is within distance 2 of it, and
\* walk_to_location otherwise.
C13_OneCandidatePerLocation ==
    dphase = "generated" =>
        \A k \in 1..Len(WorldLocations) :
            LET loc == WorldLocations[k]
                t == Targeting(dcands, loc)
            IN  IF loc.id \in dctx.active_cooldowns THEN t = {}
                ELSE /\ Cardinality(t) = 1
                     /\ \A i \in t :
                         IF DistSq(loc.x, loc.y, dctx.x, dctx.y) <= 2 * 2
                         THEN <<loc.location_type, dcands[i].action_type>>
                                  \in CategoryInteractions
                         ELSE dcands[i].action_type = "walk_to_location"

\* Witness of C13: at (9, 4) with F1 on cooldown: nothing targets F1, the
\* karaoke and the social hub at distance exactly 2 get their own
\* interactions, and the rest area is walked to.
C13_Witness ==
    /\ dphase = "generated"
    /\ dctx.x = 9 /\ dctx.y = 4
    /\ dctx.active_cooldowns = {"F1"}
    /\ Targeting(dcands, WorldLocations[1]) = {}
    /\ \E i \in 1..Len(dcands) :
        dcands[i].action_type = "interact_karaoke" /\ dcands[i].target_id = "K1"
    /\ \E i \in 1..Len(dcands) :
        dcands[i].action_type = "interact_social_hub" /\ dcands[i].target_id = "S1"
    /\ \E i \in 1..Len(dcands) :
        dcands[i].action_type = "walk_to_location" /\ dcands[i].target_id = "R1"

\* The candidates of a list that have the action type.
OfType(cands, type) ==
    { i \in 1..Len(cands) : cands[i].action_type = type }

\* C14: in a conversation the candidates hold exactly one Leave-Conversation
\* and no Avoid and no Initiate-Conversation, whoever is near; outside a
\* conversation they hold no Leave-Conversation.
C14_LeaveOnlyInConversation ==
    dphase = "generated" =>
        IF dctx.in_conversation
        THEN /\ Cardinality(OfType(dcands, "leave_conversation")) = 1
             /\ OfType(dcands, "avoid_avatar") = {}
             /\ OfType(dcands, "initiate_conversation") = {}
        ELSE OfType(dcands, "leave_conversation") = {}

\* Witness of C14: in a conversation with a stranger and a disliked avatar
\* near, the candidates are generated.
C14_Witness ==
    /\ dphase = "generated"
    /\ dctx.in_conversation
    /\ \E i \in 1..Len(dctx.nearby_avatars) :
        /\ dctx.nearby_avatars[i].distance <= CONVERSATION_RADIUS
        /\ dctx.nearby_avatars[i].has_memory
        /\ dctx.nearby_avatars[i].sentiment < -300
    /\ \E i \in 1..Len(dctx.nearby_avatars) :
        /\ dctx.nearby_avatars[i].distance <= CONVERSATION_RADIUS
        /\ ~dctx.nearby_avatars[i].has_memory
    /\ OfType(dcands, "leave_conversation") # {}

\* The candidates of a list of the action type that target the avatar.
AtAvatar(cands, type, id) ==
    { i \in OfType(cands, type) :
        cands[i].target_type = "avatar" /\ cands[i].target_id = id }

\* C15: outside a conversation the candidates hold an Avoid for every nearby
\* avatar within 19 whose remembered sentiment is below -0.3, and an
\* Initiate-Conversation for every nearby avatar within 15, so a disliked
\* avatar within 15 is the target of both.
C15_AvoidAndInitiate ==
    (dphase = "generated" /\ ~dctx.in_conversation) =>
        \A k \in 1..Len(dctx.nearby_avatars) :
            LET nearby == dctx.nearby_avatars[k]
            IN  /\ (nearby.has_memory /\ nearby.sentiment < -300
                        /\ nearby.distance <= CONVERSATION_RADIUS + 4)
                    => AtAvatar(dcands, "avoid_avatar", nearby.avatar_id) # {}
                /\ nearby.distance <= CONVERSATION_RADIUS
                    => AtAvatar(dcands, "initiate_conversation",
                                nearby.avatar_id) # {}

\* The scored candidates of positive utility.
PositiveCandidates(scored) ==
    { i \in 1..Len(scored) : scored[i].utility_score > 0 }

MaxSelectLen == 4

\* The i-th candidate of a list: candidates of one list differ in target.
SelectCandidateAt(i, utility) ==
    Action("walk_to_location", "location", WorldLocations[i].id,
           WorldLocations[i].x, WorldLocations[i].y, utility, 0)

\* The scored lists of up to MaxSelectLen candidates, the empty list included.
SelectLists ==
    UNION { { [i \in 1..n |-> SelectCandidateAt(i, u[i])] :
                u \in [1..n -> UtilityDraws] } : n \in 0..MaxSelectLen }

SelectInit ==
    /\ sactions \in SelectLists
    /\ sdraw = 0
    /\ sresult = NoSelection
    /\ DecideAtRest /\ StoreAtRest /\ TicksAtRest /\ ep = NoEndpoint
    /\ NeedsAtRest /\ ExecuteAtRest /\ ScoreAtRest /\ DecayAtRest /\ WalkAtRest
    /\ AuditAtRest

\* One call of softmax_select; the draw of line 720 is taken only when the
\* list has two candidates or more.
SelectCall ==
    /\ sresult = NoSelection
    /\ \E r \in UniformDraws :
        /\ sresult' = softmax_select(sactions, r)
        /\ sdraw' = IF softmax_select(sactions, r).drew THEN r ELSE sdraw
    /\ UNCHANGED << sactions, decideVars, storeVars, tickVars, ep, needVars,
                    executeVars, scoreVars, decayVars,
                    walkVars, auditVars >>

SelectNext == SelectCall

SpecSelect == SelectInit /\ [][SelectNext]_vars

\* The candidates whose cumulative probability meets or exceeds the draw.
Reaching(actions, r) ==
    { i \in 1..Len(actions) : SumSeq(Probabilities(actions), i) >= r }

\* C17: softmax_select on a list of two or more candidates returns one
\* element of the list for every draw, the first whose cumulative
\* probability meets or exceeds the draw and the last one when none does;
\* on a list of one it returns that candidate without drawing; on the empty
\* list it raises the invalid-input error and returns nothing.
C17_OneElementReturned ==
    sresult # NoSelection =>
        CASE Len(sactions) = 0 ->
                sresult.status = "ValueError" /\ sresult.action = NoAction
          [] Len(sactions) = 1 ->
                /\ sresult.status = "ok"
                /\ sresult.action = sactions[1]
                /\ ~sresult.drew
          [] OTHER ->
                /\ sresult.status = "ok"
                /\ sresult.drew
                /\ Cardinality({ i \in 1..Len(sactions) :
                                    sactions[i] = sresult.action }) = 1
                /\ IF Reaching(sactions, sdraw) # {}
                   THEN sresult.action =
                            sactions[FirstOf(Reaching(sactions, sdraw))]
                   ELSE sresult.action = sactions[Len(sactions)]

\* Witness of C17: the rounded probabilities of three candidates sum below
\* the draw, no cumulative probability reaches it, and the last candidate
\* is returned.
C17_Witness ==
    /\ sresult.status = "ok"
    /\ Len(sactions) >= 3
    /\ Reaching(sactions, sdraw) = {}
    /\ sresult.action = sactions[Len(sactions)]

(***************************************************************************)
(* process_agent_tick  (agent_worker.py 181-297)                           *)
(*                                                                         *)
(* Every store call is one step and may raise instead of taking effect.    *)
(* Spec follows the rows an invocation reads and writes and the calls it   *)
(* makes, not the need values (SpecDecide and SpecNeeds follow those): the *)
(* decision is made on the snapshot TickContext, in which the avatar       *)
(* stands at food location F1 next to one avatar it has no memory of.      *)
(***************************************************************************)
TickContext(on_cooldown) ==
    Context(2, 2, Personality(500, 500, 500, 500), Needs(500, 500, 500, 0),
            << Nearby("n1", 5, 2, 3, FALSE, 0, 0, FALSE) >>,
            IF on_cooldown THEN {"F1"} ELSE {}, FALSE, << >>)

\* Positions in the candidate list whose candidate alone is scored above
\* zero: Idle, the location under the avatar, and Initiate-Conversation.
TickChoices == {1, 3, Len(WorldLocations) + 3}

TickRandoms ==
    [draws : {[j \in 1..2 |-> 0]}, ddx : {3}, ddy : {-4},
     utilities : { OnlyPositive(j) : j \in TickChoices }, r : {999}]

\* The actions make_decision can return on the snapshot.
TickDecisions(on_cooldown) ==
    { make_decision(TickContext(on_cooldown), r) : r \in TickRandoms }

\* The positions between acquiring the lock and releasing it: building the
\* context, deciding, executing, persisting, logging.
SectionPcs ==
    {"build_position", "build_personality", "build_state", "build_rest",
     "execute", "social_write", "persist", "log"}

\* The positions at which the next statement is a store call that can raise.
CallPcs == SectionPcs \cup {"release", "release_no_context"}

\* A write of the agent_state row by `by` makes stale what every other
\* operation has read of it and not yet written back.
SnapAfterStateWrite(by) ==
    [j \in TickProcs |->
        IF j = by THEN [snap[j] EXCEPT !.overwrote = snap[j].stale,
                                       !.state_read = FALSE, !.stale = FALSE]
        ELSE IF snap[j].state_read THEN [snap[j] EXCEPT !.stale = TRUE]
        ELSE snap[j]]

EpAfterStateWrite == IF ep.state_read THEN [ep EXCEPT !.stale = TRUE] ELSE ep

\* Line 202, acquire_tick_lock returns True.
AcquireGranted(i) ==
    /\ pc[i] = "idle" /\ started < MaxInvocations
    /\ LockFree
    /\ tick_lock_until' = LockedUntil
    /\ started' = started + 1
    /\ acq' = [acq EXCEPT ![i] = "granted"]
    /\ pc' = [pc EXCEPT ![i] = "build_position"]
    /\ UNCHANGED << now, has_position, personality_row, has_state, cooldown_until,
                    duplicate_interaction, social_rows, interaction_count,
                    social_calls, outcome, releases, snap, action,
                    decideVars, functionVars, needVars, ep >>

\* Lines 202-204, acquire_tick_lock returns False: return None at once.
AcquireDenied(i) ==
    /\ pc[i] = "idle" /\ started < MaxInvocations
    /\ ~LockFree
    /\ started' = started + 1
    /\ acq' = [acq EXCEPT ![i] = "denied"]
    /\ outcome' = [outcome EXCEPT ![i] = "None"]
    /\ pc' = [pc EXCEPT ![i] = "done"]
    /\ UNCHANGED << storeVars, releases, snap, action, decideVars, functionVars, needVars, ep >>

\* Line 202, acquire_tick_lock raises: control goes to the handler.
AcquireRaises(i) ==
    /\ pc[i] = "idle" /\ started < MaxInvocations
    /\ started' = started + 1
    /\ acq' = [acq EXCEPT ![i] = "raised"]
    /\ pc' = [pc EXCEPT ![i] = "handler"]
    /\ UNCHANGED << storeVars, outcome, releases, snap, action,
                    decideVars, functionVars, needVars, ep >>

\* build_agent_context, lines 454-456: the position row.
BuildPosition(i) ==
    /\ pc[i] = "build_position"
    /\ pc' = [pc EXCEPT ![i] = IF has_position THEN "build_personality"
                               ELSE "release_no_context"]
    /\ UNCHANGED << storeVars, started, acq, outcome, releases, snap,
                    action, decideVars, functionVars, needVars, ep >>

\* Lines 208-211: no context; release and return None.
ReleaseNoContext(i) ==
    /\ pc[i] = "release_no_context"
    /\ tick_lock_until' = Unlocked
    /\ releases' = [releases EXCEPT ![i] = releases[i] + 1]
    /\ outcome' = [outcome EXCEPT ![i] = "None"]
    /\ pc' = [pc EXCEPT ![i] = "done"]
    /\ UNCHANGED << now, has_position, personality_row, has_state, cooldown_until,
                    duplicate_interaction, social_rows, interaction_count,
                    social_calls, started, acq, snap, action,
                    decideVars, functionVars, needVars, ep >>

\* build_agent_context, lines 458-462: get or create the personality.
BuildPersonality(i) ==
    /\ pc[i] = "build_personality"
    /\ IF personality_row = 0
       THEN personality_row' = 1
       ELSE UNCHANGED personality_row
    /\ pc' = [pc EXCEPT ![i] = "build_state"]
    /\ UNCHANGED << now, tick_lock_until, has_position, has_state, cooldown_until,
                    duplicate_interaction, social_rows, interaction_count,
                    social_calls, started, acq, outcome, releases, snap, action,
                    decideVars, functionVars, needVars, ep >>

\* build_agent_context, lines 464-468: get or create the need state.
BuildState(i) ==
    /\ pc[i] = "build_state"
    /\ IF has_state
       THEN UNCHANGED has_state
       ELSE has_state' = TRUE
    /\ snap' = [snap EXCEPT ![i].state_read = TRUE, ![i].stale = FALSE]
    /\ pc' = [pc EXCEPT ![i] = "build_rest"]
    /\ UNCHANGED << now, tick_lock_until, has_position, personality_row,
                    cooldown_until, duplicate_interaction, social_rows,
                    interaction_count, social_calls, started, acq, outcome,
                    releases, action, decideVars, functionVars, needVars, ep >>

\* build_agent_context, lines 470-510, then lines 213-229: the rest of the
\* snapshot is read, the needs decay and make_decision returns.
BuildRestAndDecide(i) ==
    /\ pc[i] = "build_rest"
    /\ snap' = [snap EXCEPT ![i].on_cooldown = OnCooldown]
    /\ \E a \in TickDecisions(OnCooldown) : action' = [action EXCEPT ![i] = a]
    /\ pc' = [pc EXCEPT ![i] = "execute"]
    /\ UNCHANGED << storeVars, started, acq, outcome, releases,
                    decideVars, functionVars, needVars, ep >>

\* Line 232, execute_action: its store call, if it makes one.  The call of
\* update_social_memory begins with get_social_memory.
Execute(i) ==
    /\ pc[i] = "execute"
    /\ LET call == execute_action(TickContext(snap[i].on_cooldown), action[i]).call
       IN  /\ CASE call = "position" ->
                    UNCHANGED << cooldown_until, duplicate_interaction, snap >>
                [] call = "interaction" ->
                    /\ cooldown_until' = now + WorldLocations[1].cooldown_seconds
                    /\ duplicate_interaction' = (duplicate_interaction \/ OnCooldown)
                    /\ UNCHANGED snap
                [] call = "social" ->
                    /\ snap' = [snap EXCEPT ![i].soc_found = (social_rows > 0),
                                            ![i].soc_count = interaction_count]
                    /\ UNCHANGED << cooldown_until, duplicate_interaction >>
                [] OTHER ->
                    UNCHANGED << cooldown_until, duplicate_interaction, snap >>
           /\ pc' = [pc EXCEPT ![i] = IF call = "social" THEN "social_write"
                                      ELSE "persist"]
    /\ UNCHANGED << now, tick_lock_until, has_position, personality_row, has_state,
                    social_rows, interaction_count, social_calls, started, acq,
                    outcome, releases, action, decideVars, functionVars, needVars, ep >>

\* update_social_memory, lines 224-275: update the row that was found, or
\* insert a first one.
SocialWrite(i) ==
    /\ pc[i] = "social_write"
    /\ IF snap[i].soc_found
       THEN /\ interaction_count' = snap[i].soc_count + 1
            /\ UNCHANGED social_rows
       ELSE /\ social_rows' = social_rows + 1
            /\ interaction_count' = IF social_rows = 0 THEN 1 ELSE interaction_count
    /\ social_calls' = social_calls + 1
    /\ pc' = [pc EXCEPT ![i] = "persist"]
    /\ UNCHANGED << now, tick_lock_until, has_position, personality_row, has_state,
                    cooldown_until, duplicate_interaction, started, acq, outcome,
                    releases, snap, action, decideVars, functionVars, needVars, ep >>

\* Line 235, update_state; line 241 tests the caller's debug flag.
PersistWith(i, debug) ==
    /\ pc[i] = "persist"
    /\ snap' = SnapAfterStateWrite(i)
    /\ ep' = EpAfterStateWrite
    /\ pc' = [pc EXCEPT ![i] = IF debug THEN "log" ELSE "release"]
    /\ UNCHANGED << storeVars, started, acq, outcome, releases, action, decideVars, functionVars, needVars >>

\* The tick is called with either value of debug.
Persist(i) == \E debug \in BOOLEAN : PersistWith(i, debug)

\* Lines 241-271, log_decision.
LogDecision(i) ==
    /\ pc[i] = "log"
    /\ pc' = [pc EXCEPT ![i] = "release"]
    /\ UNCHANGED << storeVars, started, acq, outcome, releases, snap, action,
                    decideVars, functionVars, needVars, ep >>

\* Lines 273-289: release the lock and return the result.
ReleaseAndReturn(i) ==
    /\ pc[i] = "release"
    /\ tick_lock_until' = Unlocked
    /\ releases' = [releases EXCEPT ![i] = releases[i] + 1]
    /\ outcome' = [outcome EXCEPT ![i] = "result"]
    /\ pc' = [pc EXCEPT ![i] = "done"]
    /\ UNCHANGED << now, has_position, personality_row, has_state, cooldown_until,
                    duplicate_interaction, social_rows, interaction_count,
                    social_calls, started, acq, snap, action,
                    decideVars, functionVars, needVars, ep >>

\* The store call an invocation is about to make raises: control goes to
\* the handler.  A release call that raises was still issued.
StoreCallRaises(i) ==
    /\ pc[i] \in CallPcs
    /\ pc[i] = "execute" =>
           execute_action(TickContext(snap[i].on_cooldown), action[i]).call # "none"
    /\ releases' = [releases EXCEPT ![i] =
                        IF pc[i] \in {"release", "release_no_context"}
                        THEN releases[i] + 1 ELSE releases[i]]
    /\ pc' = [pc EXCEPT ![i] = "handler"]
    /\ UNCHANGED << storeVars, started, acq, outcome, snap, action,
                    decideVars, functionVars, needVars, ep >>

\* Mutant: the handler returns None without releasing the lock.
Handler_NoRelease(i) ==
    /\ pc[i] = "handler"
    /\ outcome' = [outcome EXCEPT ![i] = "None"]
    /\ pc' = [pc EXCEPT ![i] = "done"]
    /\ UNCHANGED << storeVars, started, acq, releases, snap, action,
                    decideVars, functionVars, needVars, ep >>

\* Mutant: the handler's release is not guarded; when it raises, the
\* exception leaves process_agent_tick.
Handler_Unguarded(i) ==
    /\ pc[i] = "handler"
    /\ releases' = [releases EXCEPT ![i] = releases[i] + 1]
    /\ \/ tick_lock_until' = Unlocked /\ outcome' = [outcome EXCEPT ![i] = "None"]
       \/ UNCHANGED tick_lock_until /\ outcome' = [outcome EXCEPT ![i] = "raised"]
    /\ pc' = [pc EXCEPT ![i] = "done"]
    /\ UNCHANGED << now, has_position, personality_row, has_state, cooldown_until,
                    duplicate_interaction, social_rows, interaction_count,
                    social_calls, started, acq, snap, action,
                    decideVars, functionVars, needVars, ep >>

\* Lines 291-297: release the lock, swallow a failure of that release, and
\* return None.
Handler(i) ==
    /\ pc[i] = "handler"
    /\ releases' = [releases EXCEPT ![i] = releases[i] + 1]
    /\ \/ tick_lock_until' = Unlocked
       \/ UNCHANGED tick_lock_until
    /\ outcome' = [outcome EXCEPT ![i] = "None"]
    /\ pc' = [pc EXCEPT ![i] = "done"]
    /\ UNCHANGED << now, has_position, personality_row, has_state, cooldown_until,
                    duplicate_interaction, social_rows, interaction_count,
                    social_calls, started, acq, snap, action,
                    decideVars, functionVars, needVars, ep >>

\* The invocation has returned; its caller may call again.
Returned(i) ==
    /\ pc[i] = "done" /\ started < MaxInvocations
    /\ pc' = [pc EXCEPT ![i] = "idle"]
    /\ acq' = [acq EXCEPT ![i] = "none"]
    /\ outcome' = [outcome EXCEPT ![i] = "none"]
    /\ releases' = [releases EXCEPT ![i] = 0]
    /\ snap' = [snap EXCEPT ![i] = NoSnapshot]
    /\ action' = [action EXCEPT ![i] = NoAction]
    /\ UNCHANGED << storeVars, started, decideVars, functionVars, needVars, ep >>

\* Time passes.
Advance ==
    /\ now < MaxAdvances * TickLockSeconds
    /\ now' = now + TickLockSeconds
    /\ UNCHANGED << tick_lock_until, has_position, personality_row, has_state,
                    cooldown_until, duplicate_interaction, social_rows,
                    interaction_count, social_calls, tickVars, decideVars, functionVars, needVars, ep >>

TickStep(i) ==
    \/ AcquireGranted(i) \/ AcquireDenied(i) \/ AcquireRaises(i)
    \/ BuildPosition(i) \/ ReleaseNoContext(i) \/ BuildPersonality(i)
    \/ BuildState(i) \/ BuildRestAndDecide(i) \/ Execute(i) \/ SocialWrite(i)
    \/ Persist(i) \/ LogDecision(i) \/ ReleaseAndReturn(i)
    \/ StoreCallRaises(i) \/ Handler(i) \/ Returned(i)

Init ==
    /\ DecideAtRest /\ StoreInit /\ TicksAtRest /\ ep = NoEndpoint /\ NeedsAtRest
    /\ FunctionsAtRest

Next == (\E i \in TickProcs : TickStep(i)) \/ Advance

Spec == Init /\ [][Next]_vars

InSection(i) == pc[i] \in SectionPcs

\* C1: at most one invocation at a time is inside its build-context /
\* decide / execute / persist section, whatever the interleaving, the
\* failures of store and lock calls, and the time invocations take.
C1_OneInSection ==
    \A i, j \in TickProcs : (InSection(i) /\ InSection(j)) => i = j

\* C2: of two simultaneous tick requests only the one that acquired the
\* lock ever releases it: an invocation that was not granted the lock
\* returns without having issued a release.
C2_OnlyTheHolderReleases ==
    \A i \in TickProcs : acq[i] # "granted" => releases[i] = 0

\* C3: an invocation that acquired the lock has issued at least one release
\* call by the time it returns, on the normal path, on the no-context path
\* and after a failure of any call in between.
C3_ReleasedBeforeReturn ==
    \A i \in TickProcs :
        (pc[i] = "done" /\ acq[i] = "granted") => releases[i] >= 1

\* An invocation acquired the lock, a call inside its section raised, and
\* it returned None after releasing.
C3_Witness ==
    \E i \in TickProcs :
        /\ pc[i] = "done" /\ acq[i] = "granted" /\ outcome[i] = "None"
        /\ snap[i].state_read /\ releases[i] = 1

\* C4: process_agent_tick always returns a result or None, also when store
\* calls fail and when the release of the lock fails, on the normal path or
\* in the handler; no exception reaches the caller.
C4_NeverPropagates ==
    \A i \in TickProcs : pc[i] = "done" => outcome[i] \in {"result", "None"}

\* The only invocation so far released on its normal path, that release
\* raised, the handler's release failed as well (the lock is still held),
\* and the invocation returned None.
C4_Witness ==
    \E i \in TickProcs :
        /\ started = 1 /\ pc[i] = "done" /\ acq[i] = "granted"
        /\ releases[i] = 2 /\ ~LockFree /\ outcome[i] = "None"

\* C20: a tick of an avatar that lacks a personality row, a need-state row
\* or its context data is resolved by lazy initialization: the missing rows
\* exist before the decision is made, and a tick returns None only when the
\* lock was denied or a store call raised, never for lack of records.
C20_LazyInitialization ==
    [][\A i \in TickProcs :
          /\ (outcome[i] = "none" /\ outcome'[i] = "None")
                 => pc[i] \in {"idle", "handler"}
          /\ (pc[i] # "build_rest" /\ pc'[i] = "build_rest")
                 => (personality_row' > 0 /\ has_state')]_vars

\* C28: an invocation issues a release of the tick lock only if its own
\* acquire returned true; after an acquire that returned false or raised, no
\* release is issued.
C28_ReleaseOnlyAfterAcquire ==
    [][\A i \in TickProcs :
          releases'[i] > releases[i] => acq[i] = "granted"]_vars

(***************************************************************************)
(* The endpoints of main.py that write the agent's rows                    *)
(*                                                                         *)
(* One request at a time runs beside the invocations of                    *)
(* process_agent_tick; each of its store calls is one step.                *)
(* "agent_decision" is try_agent_decision_system up to its first call of   *)
(* process_agent_tick, whose invocations are the tick steps above.         *)
(***************************************************************************)
\* Endpoint requests made in one behaviour.
MaxRequests == 2

EndpointKinds ==
    {"update_agent_state", "complete_activity", "start_activity",
     "agent_decision", "update_sentiment"}

\* The first store call of each endpoint.
FirstCall(kind) ==
    CASE kind = "agent_decision" -> "get_personality"
      [] kind = "update_sentiment" -> "get_social_memory"
      [] OTHER -> "get_state"

EndpointCallPcs ==
    {"get_personality", "get_state", "create_personality", "create_state",
     "update_state", "update_state_idle", "get_social_memory", "write_social_memory"}

\* An agent_state write by the endpoint makes the ticks' snapshots stale.
SnapAfterEndpointWrite ==
    [j \in TickProcs |->
        IF snap[j].state_read THEN [snap[j] EXCEPT !.stale = TRUE] ELSE snap[j]]

EndpointBegin(kind) ==
    /\ ep.kind = "none" /\ ep.requests < MaxRequests
    /\ ep' = [NoEndpoint EXCEPT !.kind = kind, !.pc = FirstCall(kind),
                                !.requests = ep.requests + 1]
    /\ UNCHANGED << storeVars, tickVars, decideVars, functionVars, needVars >>

\* try_agent_decision_system, main.py line 219.
EndpointGetPersonality ==
    /\ ep.pc = "get_personality"
    /\ ep' = [ep EXCEPT !.personality_read = (personality_row > 0),
                        !.pc = "get_state"]
    /\ UNCHANGED << storeVars, tickVars, decideVars, functionVars, needVars >>

\* get_state and the test that follows it: main.py lines 220-222 (initialize
\* when either row is missing), 925-927 (404 when there is no state),
\* 1373-1376 and 1468-1470 (initialize when there is no state).
EndpointGetState ==
    /\ ep.pc = "get_state"
    /\ ep' = [ep EXCEPT
                !.state_read = has_state,
                !.stale = FALSE,
                !.pc = CASE ep.kind = "update_agent_state" ->
                              IF has_state THEN "update_state" ELSE "done"
                         [] ep.kind = "agent_decision" ->
                              IF ep.personality_read /\ has_state THEN "done"
                              ELSE "create_personality"
                         [] OTHER ->
                              IF has_state THEN "update_state"
                              ELSE "create_personality"]
    /\ UNCHANGED << storeVars, tickVars, decideVars, functionVars, needVars >>

\* initialize_agent, agent_database.py lines 609-611: a personality is
\* generated at random and upserted over whatever row exists.
EndpointCreatePersonality ==
    /\ ep.pc = "create_personality"
    /\ personality_row' = personality_row + 1
    /\ ep' = [ep EXCEPT !.pc = "create_state"]
    /\ UNCHANGED << now, tick_lock_until, has_position, has_state, cooldown_until,
                    duplicate_interaction, social_rows, interaction_count,
                    social_calls, tickVars, decideVars, functionVars, needVars >>

\* initialize_agent, lines 614-615: a state is generated and upserted.
EndpointCreateState ==
    /\ ep.pc = "create_state"
    /\ has_state' = TRUE
    /\ snap' = SnapAfterEndpointWrite
    /\ ep' = [ep EXCEPT !.state_read = TRUE, !.stale = FALSE,
                        !.pc = IF ep.kind = "agent_decision" THEN "done"
                               ELSE "update_state"]
    /\ UNCHANGED << now, tick_lock_until, has_position, personality_row,
                    cooldown_until, duplicate_interaction, social_rows,
                    interaction_count, social_calls, started, pc, acq, outcome,
                    releases, action, decideVars, functionVars, needVars >>

\* update_state with the needs the request read and changed: main.py lines
\* 939, 1423 and 1430, 1489.
EndpointUpdateState ==
    /\ ep.pc \in {"update_state", "update_state_idle"}
    /\ snap' = SnapAfterEndpointWrite
    /\ ep' = [ep EXCEPT !.overwrote = (ep.overwrote \/ ep.stale),
                        !.stale = FALSE,
                        !.pc = IF ep.kind = "complete_activity"
                                  /\ ep.pc = "update_state"
                               THEN "update_state_idle" ELSE "done"]
    /\ UNCHANGED << storeVars, started, pc, acq, outcome, releases, action,
                    decideVars, functionVars, needVars >>

\* update_social_memory, agent_database.py line 224.
EndpointGetSocialMemory ==
    /\ ep.pc = "get_social_memory"
    /\ ep' = [ep EXCEPT !.soc_found = (social_rows > 0),
                        !.soc_count = interaction_count,
                        !.pc = "write_social_memory"]
    /\ UNCHANGED << storeVars, tickVars, decideVars, functionVars, needVars >>

\* update_social_memory, lines 226-275.
EndpointWriteSocialMemory ==
    /\ ep.pc = "write_social_memory"
    /\ IF ep.soc_found
       THEN /\ interaction_count' = ep.soc_count + 1
            /\ UNCHANGED social_rows
       ELSE /\ social_rows' = social_rows + 1
            /\ interaction_count' = IF social_rows = 0 THEN 1 ELSE interaction_count
    /\ social_calls' = social_calls + 1
    /\ ep' = [ep EXCEPT !.pc = "done"]
    /\ UNCHANGED << now, tick_lock_until, has_position, personality_row, has_state,
                    cooldown_until, duplicate_interaction, tickVars, decideVars, functionVars, needVars >>

\* The store call the request is about to make raises; the endpoint answers
\* with an error.
EndpointCallRaises ==
    /\ ep.pc \in EndpointCallPcs
    /\ ep' = [ep EXCEPT !.pc = "done"]
    /\ UNCHANGED << storeVars, tickVars, decideVars, functionVars, needVars >>

\* The request is answered.
EndpointReturn ==
    /\ ep.pc = "done"
    /\ ep' = [NoEndpoint EXCEPT !.requests = ep.requests]
    /\ UNCHANGED << storeVars, tickVars, decideVars, functionVars, needVars >>

EndpointStep ==
    \/ \E kind \in EndpointKinds : EndpointBegin(kind)
    \/ EndpointGetPersonality \/ EndpointGetState
    \/ EndpointCreatePersonality \/ EndpointCreateState
    \/ EndpointUpdateState \/ EndpointGetSocialMemory
    \/ EndpointWriteSocialMemory \/ EndpointCallRaises \/ EndpointReturn

StoreNext == TickStep("t1") \/ EndpointStep

SpecStore == Init /\ [][StoreNext]_vars

SocialCallInProgress ==
    \/ \E i \in TickProcs : pc[i] = "social_write"
    \/ ep.pc = "write_social_memory"

\* C6: whenever no update_social_memory call is under way, the pair has one
\* record if any call has completed, none otherwise, and the record's
\* interaction_count is the number of completed calls, whatever the
\* interleaving of the ticks and the sentiment endpoint.
C6_CountIsCompletedCalls ==
    ~SocialCallInProgress =>
        /\ social_rows = (IF social_calls > 0 THEN 1 ELSE 0)
        /\ interaction_count = social_calls

\* C7: once a personality row exists for the avatar, no tick and no endpoint
\* (lazy initialization, complete-activity, start-activity) writes another
\* one over it.
C7_PersonalityWrittenOnce == personality_row <= 1

\* C8: no operation (tick, complete-activity, start-activity, manual state
\* update) writes the need-state row from a read that another operation's
\* write has since made stale.
C8_NoStaleOverwrite ==
    /\ ~ep.overwrote
    /\ \A i \in TickProcs : ~snap[i].overwrote

(***************************************************************************)
(* The values the operations store                                         *)
(*                                                                         *)
(* SpecNeeds runs whole operations one after another and follows the       *)
(* numbers they write: process_agent_tick with every call succeeding, the  *)
(* manual state update, complete-activity and the sentiment endpoint.      *)
(***************************************************************************)
\* Operations in one behaviour.
MaxOperations == 2

\* Seconds between utcnow() on the API host and the stored last_tick
\* (agent_worker.py line 221): a clock behind the one that stamped
\* last_tick, no time at all, one period, and more than a day.
ElapsedSeconds == {-30, 0, 300, 120000}

NeedsPositions == { <<2, 2>>, <<9, 6>>, <<20, 20>> }

NeedsNearby ==
    { << >>,
      << Nearby("n1", 5, 2, 3, FALSE, 0, 0, FALSE) >>,
      << Nearby("n1", 5, 2, 3, TRUE, -800, 500, FALSE) >> }

NeedsRandoms ==
    [draws : {[j \in 1..2 |-> 0]}, ddx : {3}, ddy : {-4},
     utilities : { OnlyPositive(j) : j \in 1..(Len(WorldLocations) + 3) },
     r : {999}]

StartingNeeds ==
    { Needs(800, 300, 400, 500), Needs(1000, 0, 0, 1000),
      Needs(0, 1000, 1000, -1000) }

\* Request values: below the range, inside it, above it.
RequestValues == {-5000, 300, 5000}

Clamp(lo, v, hi) == Max(lo, Min(hi, v))

\* update_social_memory, agent_database.py lines 226-275: the row it writes.
update_social_memory(row, sentiment_delta, familiarity_delta) ==
    IF row.exists
    THEN [exists |-> TRUE,
          sentiment |-> Clamp(-One, row.sentiment + sentiment_delta, One),
          familiarity |-> Clamp(0, row.familiarity + familiarity_delta, One)]
    ELSE [exists |-> TRUE,
          sentiment |-> Clamp(-One, sentiment_delta, One),
          familiarity |-> Clamp(0, familiarity_delta, One)]

\* process_agent_tick, agent_worker.py lines 213-235, every call succeeding:
\* decay, decide, execute, persist.
NeedsTick ==
    /\ nsteps < MaxOperations
    /\ \E elapsed \in ElapsedSeconds, p \in NeedsPositions, n \in NeedsNearby,
          inconv \in BOOLEAN, r \in NeedsRandoms :
        LET ctx == Context(p[1], p[2], Personality(500, 500, 500, 500),
                           apply_state_decay(needs, elapsed), n, {}, inconv, << >>)
            ex == execute_action(ctx, make_decision(ctx, r))
        IN  /\ needs' = ex.state
            /\ memory' = IF ex.call = "social"
                         THEN update_social_memory(memory, 50, 100)
                         ELSE memory
    /\ nsteps' = nsteps + 1
    /\ UNCHANGED << decideVars, functionVars, storeVars, tickVars, ep >>

\* update_agent_state, main.py lines 925-939: the fields the request gives
\* are clamped and written, the others are written back as read.
NeedsUpdateAgentState ==
    /\ nsteps < MaxOperations
    /\ \E given \in SUBSET {"energy", "hunger", "loneliness", "mood"},
          v \in RequestValues :
        needs' = [energy |-> IF "energy" \in given THEN Clamp(0, v, One)
                             ELSE needs.energy,
                  hunger |-> IF "hunger" \in given THEN Clamp(0, v, One)
                             ELSE needs.hunger,
                  loneliness |-> IF "loneliness" \in given THEN Clamp(0, v, One)
                                 ELSE needs.loneliness,
                  mood |-> IF "mood" \in given THEN Clamp(-One, v, One)
                           ELSE needs.mood]
    /\ nsteps' = nsteps + 1
    /\ UNCHANGED << memory, decideVars, functionVars, storeVars, tickVars, ep >>

\* complete_activity, main.py lines 1380-1412: the effect of the location
\* type, for progress already clamped to [0, 1].
ActivityEffect(st, location_type, progress, completed_full) ==
    CASE location_type = "food" ->
            [st EXCEPT !.hunger = IF completed_full THEN 0
                                  ELSE Max(0, TruncDiv(st.hunger * (One - progress), One)),
                       !.mood = Min(One, st.mood + TruncDiv(100 * progress, One))]
      [] location_type = "rest_area" ->
            [st EXCEPT !.energy = IF completed_full THEN One
                                  ELSE Min(One, st.energy
                                        + TruncDiv((One - st.energy) * progress, One)),
                       !.mood = Min(One, st.mood + TruncDiv(100 * progress, One))]
      [] location_type = "social_hub" ->
            [st EXCEPT !.loneliness =
                           IF completed_full THEN 0
                           ELSE Max(0, TruncDiv(st.loneliness * (One - progress), One)),
                       !.mood = Min(One, st.mood + TruncDiv(100 * progress, One))]
      [] location_type = "karaoke" ->
            [st EXCEPT !.mood = IF completed_full THEN One
                                ELSE Min(One, st.mood
                                      + TruncDiv((One - st.mood) * progress, One)),
                       !.loneliness =
                           Max(0, st.loneliness - TruncDiv(300 * progress, One))]
      [] location_type = "wander_point" ->
            [st EXCEPT !.mood = Min(One, st.mood + TruncDiv(100 * progress, One)),
                       !.energy = Max(0, st.energy - TruncDiv(50 * progress, One))]
      [] OTHER -> st

\* Lines 1414-1425: the request's own effects, scaled by progress, clamped.
CustomEffects(st, effects, progress) ==
    [energy |-> Clamp(0, st.energy + TruncDiv(effects.energy * progress, One), One),
     hunger |-> Clamp(0, st.hunger + TruncDiv(effects.hunger * progress, One), One),
     loneliness |->
         Clamp(0, st.loneliness + TruncDiv(effects.loneliness * progress, One), One),
     mood |-> Clamp(-One, st.mood + TruncDiv(effects.mood * progress, One), One)]

NeedsCompleteActivity ==
    /\ nsteps < MaxOperations
    /\ \E location_type \in LocationTypes \cup {"other"},
          raw_progress \in {-500, 500, 2000}, completed_full \in BOOLEAN,
          effects \in {NoEffects, Effects(5000, -5000, 5000, -5000)} :
        LET progress == Clamp(0, raw_progress, One)
        IN  needs' = CustomEffects(
                         ActivityEffect(needs, location_type, progress, completed_full),
                         effects, progress)
    /\ nsteps' = nsteps + 1
    /\ UNCHANGED << memory, decideVars, functionVars, storeVars, tickVars, ep >>

\* update_sentiment, main.py lines 964-972.
NeedsUpdateSentiment ==
    /\ nsteps < MaxOperations
    /\ \E sd, fd \in RequestValues :
        memory' = update_social_memory(memory, sd, fd)
    /\ nsteps' = nsteps + 1
    /\ UNCHANGED << needs, decideVars, functionVars, storeVars, tickVars, ep >>

NeedsInit ==
    /\ needs \in StartingNeeds
    /\ memory = NoMemory
    /\ nsteps = 0
    /\ DecideAtRest /\ StoreAtRest /\ TicksAtRest /\ ep = NoEndpoint
    /\ FunctionsAtRest

NeedsNext ==
    \/ NeedsTick \/ NeedsUpdateAgentState \/ NeedsCompleteActivity
    \/ NeedsUpdateSentiment

SpecNeeds == NeedsInit /\ [][NeedsNext]_vars

\* C5: every stored energy, hunger, loneliness and familiarity is in [0, 1]
\* and every stored mood and sentiment is in [-1, 1], after any sequence of
\* ticks, manual state updates, activity completions and social-memory
\* updates.
C5_StoredValuesInRange ==
    /\ needs.energy >= 0 /\ needs.energy <= One
    /\ needs.hunger >= 0 /\ needs.hunger <= One
    /\ needs.loneliness >= 0 /\ needs.loneliness <= One
    /\ needs.mood >= -One /\ needs.mood <= One
    /\ memory.familiarity >= 0 /\ memory.familiarity <= One
    /\ memory.sentiment >= -One /\ memory.sentiment <= One

(***************************************************************************)
(* SpecExecute: execute_action on the decisions of a bounded family of     *)
(* contexts  (agent_worker.py 74-174)                                      *)
(***************************************************************************)
\* On the food, next to the karaoke and the social hub, on the wander
\* point, far from every location, and two units from the east and south
\* edges of the map.
ExecutePositions ==
    { <<2, 2>>, <<9, 4>>, <<5, 9>>, <<20, 20>>,
      <<MAP_WIDTH - 2, MAP_HEIGHT - 2>> }

\* Nobody; a disliked avatar at (2, 12); a disliked avatar 8 units west of
\* the position near the edges.
ExecuteNearby ==
    { << >>, << Nearby("n2", 2, 12, 10, TRUE, -800, 400, FALSE) >>,
      << Nearby("n5", MAP_WIDTH - 10, MAP_HEIGHT - 2, 8, TRUE, -800, 400,
                TRUE) >> }

ExecuteRandoms ==
    [draws : {[j \in 1..2 |-> 0]}, ddx : {3}, ddy : {-4},
     utilities : { OnlyPositive(j) : j \in 1..MaxCandidates }, r : {999}]

\* The actions make_decision can return on the context.
ExecuteDecisions(ctx) == { make_decision(ctx, rnd) : rnd \in ExecuteRandoms }

\* record_world_interaction, agent_database.py lines 319-337: the inserted
\* row, for a call at time 0.
InteractionRow(loc) ==
    [location_id |-> loc.id, cooldown_until |-> loc.cooldown_seconds]

ExecuteInit ==
    /\ xctx \in
        { Context(p[1], p[2], Personality(500, 500, 500, 500), st, n, {}, ic,
                  << >>) :
            p \in ExecutePositions, st \in StartingNeeds, n \in ExecuteNearby,
            ic \in BOOLEAN }
    /\ xaction \in ExecuteDecisions(xctx)
    /\ xphase = "start"
    /\ xstate = xctx.state
    /\ xposition = << xctx.x, xctx.y >>
    /\ xinteractions = {}
    /\ xmemory = NoMemory
    /\ DecideAtRest /\ StoreAtRest /\ TicksAtRest /\ ep = NoEndpoint
    /\ NeedsAtRest /\ SelectAtRest /\ ScoreAtRest /\ DecayAtRest /\ WalkAtRest
    /\ AuditAtRest

\* execute_action with every store call it makes succeeding.
ExecuteAction ==
    /\ xphase = "start"
    /\ LET ex == execute_action(xctx, xaction)
       IN  /\ xstate' = ex.state
           /\ xposition' = IF ex.call = "position" THEN << ex.x, ex.y >>
                           ELSE xposition
           /\ xinteractions' =
                  IF ex.call = "interaction"
                  THEN xinteractions \cup
                           { InteractionRow(l) : l \in LocationById(ex.loc) }
                  ELSE xinteractions
           /\ xmemory' = IF ex.call = "social"
                         THEN update_social_memory(xmemory, 50, 100)
                         ELSE xmemory
    /\ xphase' = "executed"
    /\ UNCHANGED << xctx, xaction, decideVars, storeVars, tickVars, ep, needVars,
                    selectVars, scoreVars, decayVars,
                    walkVars, auditVars >>

ExecuteNext == ExecuteAction

SpecExecute == ExecuteInit /\ [][ExecuteNext]_vars

DirectInteractions ==
    { "interact_food", "interact_rest", "interact_karaoke",
      "interact_social_hub", "interact_wander_point" }

\* C18: after any direct interaction with a known location is executed, the
\* returned needs are the given needs with the location's effects applied,
\* and an interaction is recorded for the location with its cooldown.
C18_InteractionApplied ==
    (xphase = "executed" /\ xaction.action_type \in DirectInteractions) =>
        \A loc \in LocationById(xaction.target_id) :
            /\ xstate = apply_interaction_effects(xctx.state, loc.effects)
            /\ InteractionRow(loc) \in xinteractions

\* C19: after an Avoid-avatar is executed the four needs are as given and
\* the stored position has moved toward the flee target; after a
\* Leave-conversation the needs and the stored position are as given.
C19_AvoidAndLeave ==
    xphase = "executed" =>
        /\ xaction.action_type = "avoid_avatar" =>
            /\ xstate = xctx.state
            /\ << xaction.tx, xaction.ty >> # << xctx.x, xctx.y >> =>
                DistSq(xposition[1], xposition[2], xaction.tx, xaction.ty)
                    < DistSq(xctx.x, xctx.y, xaction.tx, xaction.ty)
        /\ xaction.action_type = "leave_conversation" =>
            /\ xstate = xctx.state
            /\ xposition = << xctx.x, xctx.y >>

\* C29: a decided walk_to_location, executed on the snapshot it was decided
\* on, makes a movement step of 1 to 3 units toward the location and costs
\* 0.02 energy; it applies no location effects and records no interaction.
C29_WalkOnlyMoves ==
    (xphase = "executed" /\ xaction.action_type = "walk_to_location") =>
        /\ DistSq(xposition[1], xposition[2], xctx.x, xctx.y) \in 1..9
        /\ DistSq(xposition[1], xposition[2], xaction.tx, xaction.ty)
               < DistSq(xctx.x, xctx.y, xaction.tx, xaction.ty)
        /\ xstate = [xctx.state EXCEPT !.energy = Max(0, xctx.state.energy - 20)]
        /\ xinteractions = {}

\* Witness of C29: a hungry avatar far from the food was sent to the nearest
\* food location by the interrupt, and the walk was executed.
C29_Witness ==
    /\ xphase = "executed"
    /\ xaction.action_type = "walk_to_location"
    /\ xaction.target_id = "F2"
    /\ xaction.utility_score = 10 * One
    /\ xposition # << xctx.x, xctx.y >>

\* C26: every positional target of a decided action, the wander target and
\* the flee target of an Avoid, lies inside the world bounds 0..MAP_WIDTH by
\* 0..MAP_HEIGHT.
C26_TargetsInsideMap ==
    (xaction.action_type \in {"wander", "avoid_avatar"}
         /\ xaction.target_type # "none") =>
        /\ xaction.tx \in 0..MAP_WIDTH
        /\ xaction.ty \in 0..MAP_HEIGHT

(***************************************************************************)
(* SpecScore: calculate_world_affinity and calculate_recency_penalty as    *)
(* score_action calls them  (agent_engine.py 662-669)                      *)
(***************************************************************************)
ScoreActions ==
    { "idle", "walk_to_location", "interact_food", "initiate_conversation",
      "avoid_avatar" }

\* Affinities in thousandths, on both sides of each segment threshold.
AffinityValues == {0, 150, 299, 300, 400, 499, 500, 600, 699, 700, 850, 1000}

\* Seconds since the last interaction; a negative value is a
\* last_interaction ahead of this host's clock.
SinceValues == {-60, 0, 1, 18, 900, 1799, 1800, 1801, 3600, 86400}

ScoreInputs ==
    { in \in [action_type : ScoreActions, has_location : BOOLEAN,
              affinity : AffinityValues, on_cooldown : BOOLEAN,
              has_memory : BOOLEAN, has_last_interaction : BOOLEAN,
              since : SinceValues] :
        /\ in.on_cooldown => in.has_location
        /\ in.has_last_interaction => in.has_memory
        /\ ~in.has_last_interaction => in.since = 0
        /\ ~in.has_location => in.affinity = 500 }

ScoreInit ==
    /\ score_input \in ScoreInputs
    /\ score_output = NoScoreOutput
    /\ DecideAtRest /\ StoreAtRest /\ TicksAtRest /\ ep = NoEndpoint
    /\ NeedsAtRest /\ SelectAtRest /\ ExecuteAtRest /\ DecayAtRest /\ WalkAtRest
    /\ AuditAtRest

\* Lines 662-669 of score_action: the two components are computed.
ScoreComponents ==
    /\ ~score_output.scored
    /\ score_output' =
           [scored |-> TRUE,
            world_affinity |->
                calculate_world_affinity(score_input.action_type,
                    score_input.has_location, score_input.affinity),
            recency_penalty |->
                calculate_recency_penalty(score_input.action_type,
                    score_input.has_memory, score_input.has_last_interaction,
                    score_input.since, score_input.on_cooldown)]
    /\ UNCHANGED << score_input, decideVars, storeVars, tickVars, ep, needVars,
                    selectVars, executeVars, decayVars,
                    walkVars, auditVars >>

ScoreNext == ScoreComponents

SpecScore == ScoreInit /\ [][ScoreNext]_vars

\* The penalty of line 369 at hours_since = 0.
MaxRecencyPenalty == One \div 2

\* The recency penalty of the scored input with another time and cooldown.
RecencyAt(since, on_cooldown) ==
    calculate_recency_penalty(score_input.action_type, score_input.has_memory,
        score_input.has_last_interaction, since, on_cooldown)

\* C21: for Initiate-Conversation toward an avatar last interacted with t
\* seconds ago, t >= 0, the recency penalty is the maximum at t = 0, falls
\* linearly, never rises as t grows, never exceeds the maximum and is 0
\* from 1800 s on; a target location on cooldown adds the same flat penalty
\* at every t.
C21_RecencyPenalty ==
    score_output.scored =>
        /\ \A t \in SinceValues :
               RecencyAt(t, TRUE) - RecencyAt(t, FALSE) = One
        /\ (/\ score_input.action_type = "initiate_conversation"
            /\ score_input.has_last_interaction
            /\ score_input.since >= 0) =>
            LET penalty == score_output.recency_penalty
                               - (IF score_input.on_cooldown THEN One ELSE 0)
                left == 1800 - score_input.since
            IN  /\ score_input.since = 0 => penalty = MaxRecencyPenalty
                /\ penalty >= 0 /\ penalty <= MaxRecencyPenalty
                /\ score_input.since >= 1800 => penalty = 0
                /\ score_input.since < 1800 =>
                       /\ 1800 * penalty <= MaxRecencyPenalty * left
                       /\ MaxRecencyPenalty * left < 1800 * (penalty + 1)
                /\ \A t \in SinceValues :
                       t >= score_input.since =>
                           RecencyAt(t, score_input.on_cooldown)
                               <= score_output.recency_penalty

\* Witness of C21: halfway through the window the penalty is half the
\* maximum.
C21_Witness ==
    /\ score_output.scored
    /\ score_input.action_type = "initiate_conversation"
    /\ score_input.has_last_interaction
    /\ ~score_input.on_cooldown
    /\ score_input.since = 900
    /\ score_output.recency_penalty = MaxRecencyPenalty \div 2

\* C22: for a location-targeted action the world-affinity score does not
\* fall when the affinity rises, across the thresholds 0.3, 0.5 and 0.7
\* too, is negative at affinity 0 and largest and positive at affinity 1;
\* without a resolved location it is 0.
C22_WorldAffinityMonotone ==
    score_output.scored =>
        IF ~score_input.has_location THEN score_output.world_affinity = 0
        ELSE score_input.action_type \in LocationActions =>
            /\ \A a \in AffinityValues :
                   a >= score_input.affinity =>
                       calculate_world_affinity(score_input.action_type, TRUE, a)
                           >= score_output.world_affinity
            /\ score_input.affinity = 0 => score_output.world_affinity < 0
            /\ score_input.affinity = One =>
                   /\ score_output.world_affinity > 0
                   /\ \A a \in AffinityValues :
                          calculate_world_affinity(score_input.action_type,
                                                   TRUE, a)
                              <= score_output.world_affinity

\* Witness of C22: just below the threshold 0.7 the score is just below the
\* score at the threshold.
C22_Witness ==
    /\ score_output.scored
    /\ score_input.action_type = "interact_food"
    /\ score_input.has_location
    /\ score_input.affinity = 699
    /\ score_output.world_affinity = 598
    /\ calculate_world_affinity("interact_food", TRUE, 700) = 600

(***************************************************************************)
(* SpecDecay: apply_state_decay as process_agent_tick calls it             *)
(* (agent_engine.py 890-924, agent_worker.py 213-226)                      *)
(***************************************************************************)
\* In-range need states: each need at its bounds and between them.
DecayStates ==
    { Needs(e, h, l, m) :
        e \in {0, 500, 1000}, h \in {0, 500, 1000}, l \in {0, 500, 1000},
        m \in {-1000, -500, 0, 500, 1000} }

\* Seconds since last_tick: a clock behind the stamp, none, one second, the
\* default period, an hour, 500 minutes and a second more, a day, and more.
DecayElapsed == {-30, 0, 1, 300, 3600, 30000, 30001, 86400, 120000}

DecayInit ==
    /\ decay_input \in [state : DecayStates, elapsed : DecayElapsed]
    /\ decay_output = NoDecayOutput
    /\ DecideAtRest /\ StoreAtRest /\ TicksAtRest /\ ep = NoEndpoint
    /\ NeedsAtRest /\ SelectAtRest /\ ExecuteAtRest /\ ScoreAtRest
    /\ WalkAtRest /\ AuditAtRest

\* agent_worker.py line 226: context.state = apply_state_decay(...).
DecayCall ==
    /\ ~decay_output.returned
    /\ decay_output' =
           [returned |-> TRUE,
            state |-> apply_state_decay(decay_input.state, decay_input.elapsed)]
    /\ UNCHANGED << decay_input, decideVars, storeVars, tickVars, ep, needVars,
                    selectVars, executeVars, scoreVars, walkVars,
                    auditVars >>

DecayNext == DecayCall

SpecDecay == DecayInit /\ [][DecayNext]_vars

\* C23: for an in-range need state and any elapsed time of 0 or more, decay
\* does not raise energy, does not lower hunger or loneliness, and pulls the
\* mood toward 0: the new mood is 0 or has the sign of the old one, and is
\* not larger in magnitude.
C23_DecayDirection ==
    (decay_output.returned /\ decay_input.elapsed >= 0) =>
        /\ decay_output.state.energy <= decay_input.state.energy
        /\ decay_output.state.hunger >= decay_input.state.hunger
        /\ decay_output.state.loneliness >= decay_input.state.loneliness
        /\ decay_output.state.mood * decay_input.state.mood >= 0
        /\ Abs(decay_output.state.mood) <= Abs(decay_input.state.mood)

(***************************************************************************)
(* SpecCooldown: successive ticks of one avatar while the cooldown of a    *)
(* recorded interaction runs out  (agent_database.py 306-346)              *)
(***************************************************************************)
\* Half the cooldown of the food location F1.
CooldownStepSeconds == WorldLocations[1].cooldown_seconds \div 2

MaxCooldownAdvances == 3

\* Time passes, half a cooldown of the food location at a time.
CooldownAdvance ==
    /\ now < MaxCooldownAdvances * CooldownStepSeconds
    /\ now' = now + CooldownStepSeconds
    /\ UNCHANGED << tick_lock_until, has_position, personality_row, has_state,
                    cooldown_until, duplicate_interaction, social_rows,
                    interaction_count, social_calls, tickVars, decideVars,
                    functionVars, needVars, ep >>

CooldownNext == TickStep("t1") \/ CooldownAdvance

SpecCooldown == Init /\ [][CooldownNext]_vars

\* The needs a snapshot can hold, the critical ones included.
CooldownNeeds == StartingNeeds \cup {Needs(50, 900, 500, 0)}

\* What make_decision can return to an avatar standing on F1 whose snapshot
\* lists F1 as on cooldown, the interrupts included.
DecisionsUnderCooldown ==
    { make_decision(Context(2, 2, Personality(500, 500, 500, 500), st, << >>,
                            {"F1"}, FALSE, << >>), r) :
        st \in CooldownNeeds, r \in TickRandoms }

\* C24: once an interaction with location F1 is recorded at time t, every
\* tick that reads its snapshot before t + cooldown_seconds finds F1 on the
\* cooldown list and decides on no action that targets F1, as a candidate or
\* as an interrupt; the record stays, and a tick after that time is offered
\* F1 again.
C24_CooldownByTime ==
    /\ cooldown_until \in {0} \cup
           { t + WorldLocations[1].cooldown_seconds :
               t \in { k * CooldownStepSeconds : k \in 0..(MaxCooldownAdvances + 1) } }
    /\ \A a \in DecisionsUnderCooldown : a.target_id # "F1"
    /\ \A i \in TickProcs :
        pc[i] = "execute" =>
            /\ snap[i].on_cooldown => action[i].target_id # "F1"
            /\ now < cooldown_until =>
                   (snap[i].on_cooldown /\ action[i].target_id # "F1")

\* Witness of C24: an interaction was recorded, its cooldown has run out by
\* time alone, and a later tick has decided to eat at F1 again.
C24_Witness ==
    /\ cooldown_until > 0 /\ now >= cooldown_until
    /\ pc["t1"] = "execute"
    /\ ~snap["t1"].on_cooldown
    /\ action["t1"].action_type = "interact_food"
    /\ action["t1"].target_id = "F1"

(***************************************************************************)
(* SpecWalk: successive ticks that execute walk_to_location toward one     *)
(* location from any integer position of the map, nothing else moving the  *)
(* avatar  (agent_worker.py 107-133)                                       *)
(***************************************************************************)
\* Every integer position of the map.
WalkPositions == (0..MAP_WIDTH) \X (0..MAP_HEIGHT)

\* No avatar is placed and no walk is under way.
WalkInit ==
    /\ WalkAtRest
    /\ DecideAtRest /\ StoreAtRest /\ TicksAtRest /\ ep = NoEndpoint
    /\ NeedsAtRest /\ SelectAtRest /\ ExecuteAtRest /\ ScoreAtRest
    /\ DecayAtRest /\ AuditAtRest

\* The avatar stands at an integer position of the map and the first
\* walk_to_location toward a location is decided.
WalkBegin ==
    /\ walk_location = "none"
    /\ walk_position' \in WalkPositions
    /\ walk_location' \in LocIds
    /\ UNCHANGED << walk_moved, decideVars, storeVars, tickVars, ep, needVars,
                    selectVars, executeVars, scoreVars, decayVars,
                    auditVars >>

\* The location walked to.
WalkTarget == CHOOSE l \in LocationById(walk_location) : TRUE

\* One tick: execute_action on a snapshot holding the stored position, with
\* the walk_to_location action for the location; update_avatar_position
\* stores the new position.  Within the interaction radius the branch
\* interacts and the position stays.
WalkTick ==
    /\ walk_location \in LocIds
    /\ \E ctx \in { Context(walk_position[1], walk_position[2],
                              Personality(500, 500, 500, 500),
                              Needs(800, 300, 400, 500), << >>, {}, FALSE,
                              << >>) },
          a \in { Action("walk_to_location", "location", WalkTarget.id,
                         WalkTarget.x, WalkTarget.y, 0, 0) } :
           \E ex \in { execute_action(ctx, a) } :
               /\ walk_position' = IF ex.call = "position"
                                    THEN << ex.x, ex.y >>
                                    ELSE walk_position
               /\ walk_moved' = (walk_moved \/ ex.call = "position")
    /\ UNCHANGED << walk_location, decideVars, storeVars, tickVars, ep,
                    needVars, selectVars, executeVars, scoreVars, decayVars,
                    auditVars >>

WalkNext == WalkBegin \/ WalkTick

SpecWalk == WalkInit /\ [][WalkNext]_vars

\* The worker runs the next tick of an avatar as long as it is called; a tick
\* that can move the avatar is eventually executed.
SpecWalkFair == SpecWalk /\ WF_vars(WalkNext)

\* Squared distance from the stored position to the location walked to.
WalkDistSq ==
    (walk_position[1] - WalkTarget.x) * (walk_position[1] - WalkTarget.x)
        + (walk_position[2] - WalkTarget.y) * (walk_position[2] - WalkTarget.y)

\* The avatar is within the interaction radius of the location walked to.
WalkArrived == walk_location \in LocIds /\ WalkDistSq <= 4

\* A step of a walk under way moves the avatar by at least 1 and at most 3
\* units and brings it strictly nearer to the location.
WalkStepShortens ==
    walk_location \in LocIds =>
        /\ DistSq(walk_position[1], walk_position[2],
                  walk_position'[1], walk_position'[2]) \in 1..9
        /\ DistSq(walk_position'[1], walk_position'[2],
                  WalkTarget.x, WalkTarget.y) < WalkDistSq

\* C25: every walk step moves the avatar by at most 3 units and by at least
\* one, strictly reduces its distance to the location, and after finitely
\* many ticks the avatar is within the interaction radius (distance <= 2).
C25_WalkConverges ==
    /\ [][WalkStepShortens]_vars
    /\ <>WalkArrived

\* Witness of C25: walk steps have brought the avatar into the interaction
\* radius of the food location F1.
C25_Witness ==
    /\ walk_location = "F1"
    /\ walk_moved
    /\ WalkDistSq <= 4

(***************************************************************************)
(* SpecRetry: one decision request handled by try_agent_decision_system,   *)
(* which calls process_agent_tick up to three times and stops at the first *)
(* result  (main.py 230-243)                                               *)
(***************************************************************************)
\* for attempt in range(3)
RetryAttempts == 3

\* Lines 232-237: the attempt returned None and was not the last; after the
\* delay process_agent_tick is called again.
RetryAttempt ==
    /\ pc["t1"] = "done" /\ outcome["t1"] = "None"
    /\ started < RetryAttempts
    /\ pc' = [pc EXCEPT !["t1"] = "idle"]
    /\ acq' = [acq EXCEPT !["t1"] = "none"]
    /\ outcome' = [outcome EXCEPT !["t1"] = "none"]
    /\ releases' = [releases EXCEPT !["t1"] = 0]
    /\ snap' = [snap EXCEPT !["t1"] = NoSnapshot]
    /\ action' = [action EXCEPT !["t1"] = NoAction]
    /\ UNCHANGED << storeVars, started, decideVars, functionVars, needVars, ep >>

\* The steps of one attempt: process_agent_tick called with debug=False
\* (line 233), so nothing is logged.
AttemptStep ==
    \/ AcquireGranted("t1") \/ AcquireDenied("t1") \/ AcquireRaises("t1")
    \/ BuildPosition("t1") \/ ReleaseNoContext("t1") \/ BuildPersonality("t1")
    \/ BuildState("t1") \/ BuildRestAndDecide("t1") \/ Execute("t1")
    \/ SocialWrite("t1") \/ PersistWith("t1", FALSE)
    \/ ReleaseAndReturn("t1") \/ StoreCallRaises("t1") \/ Handler("t1")

RetryNext == AttemptStep \/ RetryAttempt

SpecRetry == Init /\ [][RetryNext]_vars

\* The store effects of execute_action applied so far for the request: the
\* world interaction recorded and the social memory writes completed.  One
\* attempt makes at most one of these calls.
RetryEffects == (IF cooldown_until > 0 THEN 1 ELSE 0) + social_calls

\* C27: over the attempts of one decision request the side effects of
\* execute_action are applied by at most one attempt, also when an attempt
\* fails after its effects were applied.
C27_EffectsOnce == RetryEffects <= 1

(***************************************************************************)
(* SpecAudit: a tick called with debug=True decides, executes and then     *)
(* builds the decision log  (agent_worker.py 228-271)                      *)
(***************************************************************************)
\* The random draws of the log's own generate_candidate_actions and
\* score_all_actions: the draws of the decision again, and other ones.
AuditRandoms ==
    [ddx : {3, -5}, ddy : {-4},
     utilities : { OnlyPositive(1), OnlyPositive(3) }]

\* Lines 241-271: the candidates are generated and scored anew on the
\* snapshot and stored as available_actions beside the selected action.
LogDecisionRecord ==
    /\ xphase = "executed"
    /\ \E rnd \in AuditRandoms :
        available_actions' =
            score_all_actions(generate_candidate_actions(xctx, rnd.ddx, rnd.ddy),
                              rnd.utilities)
    /\ xphase' = "logged"
    /\ UNCHANGED << xctx, xaction, xstate, xposition, xinteractions, xmemory,
                    decideVars, storeVars, tickVars, ep, needVars, selectVars,
                    scoreVars, decayVars, walkVars >>

AuditNext == ExecuteAction \/ LogDecisionRecord

SpecAudit == ExecuteInit /\ [][AuditNext]_vars

\* C30: in the decision log of a tick the selected action is one of the
\* stored scored candidates, with the same kind, target and utility score,
\* on ticks decided by an interrupt as well.
C30_SelectedAmongAvailable ==
    xphase = "logged" =>
        \E i \in 1..Len(available_actions) :
            /\ available_actions[i].action_type = xaction.action_type
            /\ available_actions[i].target_type = xaction.target_type
            /\ available_actions[i].target_id = xaction.target_id
            /\ available_actions[i].tx = xaction.tx
            /\ available_actions[i].ty = xaction.ty
            /\ available_actions[i].utility_score = xaction.utility_score

====
